---- MODULE Spec2Model ----
(***************************************************************************)
(* Verification model of the digitaltwin-rs typed state-machine framework  *)
(* (actor values, per-state dispatch tables, transitions) and of the       *)
(* sample models built on it (LightBulb, ChargingStation).                 *)
(*                                                                         *)
(* f32 readings and parameters are represented in tenths as integers       *)
(* (0.5 is 5, 16.0 is 160); the handlers only compare them, so the order   *)
(* of the represented values is all that matters.                          *)
(***************************************************************************)
EXTENDS Integers, Sequences, FiniteSets, TLC

VARIABLES
    actor,      \* the current actor value (Box<ActorStateType>)
    initial,    \* the actor value the run started from
    prev,       \* the actor value the last operation was called on
    op,         \* the last operation applied (kind, name, value)
    requested,  \* the target state the last handler asked transition for
    trace,      \* the operations applied since construction (scenario runs)
    factory_in, \* the model and JSON parameters handed to a factory
    factory_out,\* what the factory returned: the actor and its slot list
    twins_dir,  \* the entries of ./twins in read_dir order
    broker,     \* the payloads the broker may deliver and how many are left
    mgr_inbox,  \* Manager::recv_ch
    mgr_scan,   \* Manager::initialize_dtwins: index of the next file, 0 = not scanning
    mgr_twins,  \* initialize_dtwins: the HashSet of accepted AssetIDs
    actors,     \* Manager::actors
    runners,    \* the spawned TwinRunner tasks, in spawn order
    inboxes,    \* the recv_ch of each spawned runner
    rx_inbox,   \* NetworkReceiver::recv_ch
    asset_channels, \* NetworkReceiver::asset_channels
    subscriptions,  \* NetworkReceiver::subscriptions
    rx_payload, \* history: the payload polled last
    rx_frame,   \* the result of decoding the payload being routed
    rx_pending, \* the sends the receiver has still to do for that payload
    nframes,    \* number of payloads polled so far
    sent,       \* history: every inbox send the receiver completed, in order
    consumed,   \* history: the messages each runner took from its inbox
    panicked,   \* a panic has unwound main: the process is gone
    env_log,    \* history: the messages sent on the channels of get_channel()
                \* by a sender other than a runner
    aas_query,  \* the shell query made last: function, shell, arguments
    aas_result  \* what the query returned

actorVars == <<actor, initial, prev, op, requested, trace>>
factoryVars == <<factory_in, factory_out>>

runtimeVars == <<twins_dir, broker, mgr_inbox, mgr_scan, mgr_twins, actors,
                 runners, inboxes, rx_inbox, asset_channels, subscriptions,
                 rx_payload, rx_frame, rx_pending, nframes, sent, consumed,
                 panicked, env_log>>

aasVars == <<aas_query, aas_result>>

vars == <<actorVars, factoryVars, runtimeVars, aasVars>>

\* ------------------------------------------------------------------------
\* Bounds and input alphabets
\* ------------------------------------------------------------------------

\* longest operation sequence followed in the scenario specification
MaxOps == 5

\* f32 values in tenths: 0.3 0.5 0.7 1.0 5.0 10.0 16.0 20.0
Values == {3, 5, 7, 10, 50, 100, 160, 200}

\* slot names offered to input_change ("power" is declared by no model)
SlotNames == {"CurrentPowerDraw", "InputCurrent", "power"}

\* command names offered to execute
CommandNames == {"SwitchOn", "SwitchOff", "VehicleDetected",
                 "VehicleDisconnected", "SetChargingCurrent", "Reset"}

\* serde_json::Value payloads offered to execute
Payloads == {"{}", "16.0"}

\* marker for "the operation found no handler, no transition was requested"
NoTransition == "none"

NoOp == [kind |-> "none", name |-> "", value |-> 0, arg |-> "{}"]

\* ------------------------------------------------------------------------
\* Actor models
\* ------------------------------------------------------------------------

\* "LightBulb" and "ChargingStation" are the models declared with the
\* #[actor] macro; "LightBulbSrc" is the hand-written LightBulb of
\* src/src/models/light_bulb.rs.
Models == {"LightBulb", "ChargingStation", "LightBulbSrc"}

StatesOf(m) ==
    IF m = "ChargingStation"
    THEN {"Idle", "Connected", "Charging", "Fault"}
    ELSE {"On", "Off"}

default_state(m) == IF m = "ChargingStation" THEN "Idle" ELSE "Off"

default_threshold == 5
default_min_current == 10
default_max_current == 160
default_max_sleep_power == 50

default_values(m) ==
    IF m = "ChargingStation"
    THEN [min_current |-> default_min_current,
          max_current |-> default_max_current,
          max_sleep_power |-> default_max_sleep_power]
    ELSE [threshold |-> default_threshold]

\* parameter values an actor may have been created with
ParamChoices(m) ==
    IF m = "ChargingStation"
    THEN [min_current : {10, 50}, max_current : {160, 100},
          max_sleep_power : {50, 10}]
    ELSE [threshold : {5, 7}]

EmptyMap == [k \in {} |-> <<>>]

\* StateBehavior::create_dispatch_map: slot name -> handler (fn pointer,
\* named by the state whose impl block holds it and the method name)
create_dispatch_map(m, s) ==
    IF m = "ChargingStation"
    THEN CASE s = "Idle"      -> ("CurrentPowerDraw" :> <<"Idle", "power_change">>)
           [] s = "Connected" -> ("InputCurrent" :> <<"Connected", "current_change">>)
           [] s = "Charging"  -> ("CurrentPowerDraw" :> <<"Charging", "power_change">>)
                                 @@ ("InputCurrent" :> <<"Charging", "current_change">>)
           [] OTHER           -> EmptyMap
    ELSE ("CurrentPowerDraw" :> <<s, "power_change">>)

\* StateBehavior::create_command_map: command name -> handler
create_command_map(m, s) ==
    IF m = "ChargingStation"
    THEN CASE s = "Idle"      -> ("VehicleDetected" :> <<"Idle", "connect_vehicle">>)
           [] s = "Connected" -> ("VehicleDisconnected" :> <<"Connected", "disconnect_vehicle">>)
           [] s = "Charging"  -> ("SetChargingCurrent" :> <<"Charging", "set_charging_current">>)
           [] OTHER           -> ("Reset" :> <<"Fault", "reset">>)
    ELSE IF s = "On"
         THEN ("SwitchOff" :> <<"On", "switch_off">>)
         ELSE ("SwitchOn" :> <<"Off", "switch_on">>)

\* the struct literal Name { params, dispatch_map, command_map, _state }:
\* its state tag is the state whose tables it was given
ActorValue(m, s, p) ==
    [model |-> m, state |-> s, params |-> p,
     dispatch_map |-> create_dispatch_map(m, s),
     command_map |-> create_command_map(m, s)]

\* Name::<State>::create(params): always built in the declared default state
create(m, p) == ActorValue(m, default_state(m), p)

\* Factory::create_default
create_default(m) == create(m, default_values(m))

\* faulty variant of slots: lists only the slots of the default state
slots_of_default_state(m) == <<"CurrentPowerDraw">>

\* Name::<State>::slots: the slot list of the #[actor(slots(...))] attribute
slots(m) ==
    IF m = "ChargingStation"
    THEN <<"CurrentPowerDraw", "InputCurrent">>
    ELSE <<"CurrentPowerDraw">>

\* JSON values: numbers carry the f64 in hundredths, so that more digits
\* than the f32 parameters (tenths) hold can be written
JsonNumber(n) == [t |-> "number", n |-> n, fields |-> EmptyMap]
JsonString == [t |-> "string", n |-> 0, fields |-> EmptyMap]
JsonNull == [t |-> "null", n |-> 0, fields |-> EmptyMap]
JsonObject(fields) == [t |-> "object", n |-> 0, fields |-> fields]

\* Option<T>: None is the empty sequence, Some(x) is <<x>>
None == <<>>
Some(x) == <<x>>

\* serde_json::Value::get(&str): the member of an object, None otherwise
get(v, key) ==
    IF v.t = "object" /\ key \in DOMAIN v.fields THEN Some(v.fields[key]) ELSE None

\* serde_json::Value::as_f64: Some for a JSON number, None otherwise
as_f64(v) == IF v.t = "number" THEN Some(v.n) ELSE None

\* `v as f32`: the f64 (hundredths) rounded to the nearest f32 (tenths)
as_f32(n) == (n + 5) \div 10

\* faulty variant of param_extraction: a missing or ill-typed value gives 0
param_extraction_zero(params, name, default) ==
    LET v == get(params, name)
        f == IF v = None THEN None ELSE as_f64(v[1])
    IN IF f = None THEN 0 ELSE as_f32(f[1])

\* params.get(name).and_then(|v| v.as_f64()).map(|v| v as f32).unwrap_or(default)
param_extraction(params, name, default) ==
    LET v == get(params, name)
        f == IF v = None THEN None ELSE as_f64(v[1])
    IN IF f = None THEN default ELSE as_f32(f[1])

\* what a factory returns: (Box<ActorStateType>, Vec<&'static str>)
FactoryResult(call, a, sl) == [call |-> call, actor |-> a, slots |-> sl]

\* Factory::create_default with the slot list
Factory_create_default(m) == FactoryResult("create_default", create_default(m), slots(m))

\* Factory::create_with_params
create_with_params(m, params) ==
    FactoryResult("create_with_params",
        create(m, [name \in DOMAIN default_values(m) |->
                      param_extraction(params, name, default_values(m)[name])]),
        slots(m))

\* LightBulb::<T>::create(threshold) of src/src/models/light_bulb.rs:
\* built in the state T the caller names
LightBulb_create(T, threshold) ==
    ActorValue("LightBulbSrc", T, [threshold |-> threshold])

\* every actor value the program can hold
ActorValues ==
    UNION {{ActorValue(m, s, p) : s \in StatesOf(m), p \in ParamChoices(m)}
           : m \in Models}

\* ------------------------------------------------------------------------
\* Transitions
\* ------------------------------------------------------------------------

\* faulty variant of transition: builds the target state with the declared defaults
\* instead of copying the fields of self
transition_defaults(self, T) ==
    [model |-> self.model, state |-> T, params |-> default_values(self.model),
     dispatch_map |-> create_dispatch_map(self.model, T),
     command_map |-> create_command_map(self.model, T)]

\* #[actor] transition::<T>: copy the parameters, install T's tables
transition(self, T) ==
    [model |-> self.model, state |-> T, params |-> self.params,
     dispatch_map |-> create_dispatch_map(self.model, T),
     command_map |-> create_command_map(self.model, T)]

\* hand-written LightBulb<On>::transition::<T> / LightBulb<Off>::transition::<T>:
\* the tables are those of the impl block's own state, T is not used
LightBulb_transition(self, T) ==
    [model |-> self.model, state |-> self.state,
     params |-> [threshold |-> self.params.threshold],
     dispatch_map |-> create_dispatch_map(self.model, self.state),
     command_map |-> create_command_map(self.model, self.state)]

Transition(self, T) ==
    IF self.model = "LightBulbSrc"
    THEN LightBulb_transition(self, T)
    ELSE transition(self, T)

\* ------------------------------------------------------------------------
\* Handlers: the state each handler asks transition for
\* ------------------------------------------------------------------------

\* faulty variant of LightBulb<On>::power_change: branches swapped
LightBulb_On_power_change_swapped(self, pwr) ==
    IF pwr < self.params.threshold THEN "On" ELSE "Off"

LightBulb_On_power_change(self, pwr) ==
    IF pwr < self.params.threshold THEN "Off" ELSE "On"

LightBulb_On_switch_off(self, arg) == "Off"

\* faulty variant of LightBulb<Off>::power_change: strict comparison
LightBulb_Off_power_change_gt(self, pwr) ==
    IF pwr > self.params.threshold THEN "On" ELSE "Off"

\* faulty variant of LightBulb<Off>::power_change: the light stays off
LightBulb_Off_power_change_stays(self, pwr) ==
    IF pwr >= self.params.threshold THEN "Off" ELSE "Off"

LightBulb_Off_power_change(self, pwr) ==
    IF pwr >= self.params.threshold THEN "On" ELSE "Off"

LightBulb_Off_switch_on(self, arg) == "On"

\* faulty variant of ChargingStation<Idle>::power_change: inclusive comparison
Idle_power_change_ge(self, pwr) ==
    IF pwr >= self.params.max_sleep_power THEN "Fault" ELSE "Idle"

Idle_power_change(self, pwr) ==
    IF pwr > self.params.max_sleep_power THEN "Fault" ELSE "Idle"

Idle_connect_vehicle(self, arg) == "Connected"

\* faulty variant of ChargingStation<Connected>::current_change: also checks for an
\* overcurrent, as the Charging state does
Connected_current_change_overcurrent(self, current) ==
    IF current > self.params.max_current THEN "Fault"
    ELSE IF current > self.params.min_current THEN "Charging" ELSE "Connected"

\* faulty variant of ChargingStation<Connected>::current_change: inclusive comparison
Connected_current_change_ge(self, current) ==
    IF current >= self.params.min_current THEN "Charging" ELSE "Connected"

Connected_current_change(self, current) ==
    IF current > self.params.min_current THEN "Charging" ELSE "Connected"

Connected_disconnect_vehicle(self, arg) == "Idle"

\* faulty variant of ChargingStation<Charging>::power_change: inclusive comparison
Charging_power_change_le(self, pwr) ==
    IF pwr <= self.params.max_sleep_power THEN "Connected" ELSE "Charging"

Charging_power_change(self, pwr) ==
    IF pwr < self.params.max_sleep_power THEN "Connected" ELSE "Charging"

Charging_current_change(self, current) ==
    IF current > self.params.max_current THEN "Fault" ELSE "Charging"

Charging_set_charging_current(self, arg) == "Charging"

\* faulty variant of ChargingStation<Fault>::reset: resumes the connected state
Fault_reset_connected(self, arg) == "Connected"

Fault_reset(self, arg) == "Idle"

\* calling the fn pointer found in a dispatch map
SlotHandler(self, func, value) ==
    CASE func = <<"On", "power_change">>        -> LightBulb_On_power_change(self, value)
      [] func = <<"Off", "power_change">>       -> LightBulb_Off_power_change(self, value)
      [] func = <<"Idle", "power_change">>      -> Idle_power_change(self, value)
      [] func = <<"Connected", "current_change">> -> Connected_current_change(self, value)
      [] func = <<"Charging", "power_change">>  -> Charging_power_change(self, value)
      [] func = <<"Charging", "current_change">> -> Charging_current_change(self, value)

\* calling the fn pointer found in a command map
CommandHandler(self, func, arg) ==
    CASE func = <<"On", "switch_off">>          -> LightBulb_On_switch_off(self, arg)
      [] func = <<"Off", "switch_on">>          -> LightBulb_Off_switch_on(self, arg)
      [] func = <<"Idle", "connect_vehicle">>   -> Idle_connect_vehicle(self, arg)
      [] func = <<"Connected", "disconnect_vehicle">> -> Connected_disconnect_vehicle(self, arg)
      [] func = <<"Charging", "set_charging_current">> -> Charging_set_charging_current(self, arg)
      [] func = <<"Fault", "reset">>            -> Fault_reset(self, arg)

\* ------------------------------------------------------------------------
\* ActorState: input_change / execute
\* ------------------------------------------------------------------------

\* faulty variant of input_change: a slot without handler yields a fresh default
\* actor instead of a clone of self
input_change_fresh(self, slot, value) ==
    IF slot \in DOMAIN self.dispatch_map
    THEN Transition(self, SlotHandler(self, self.dispatch_map[slot], value))
    ELSE create_default(self.model)

input_change(self, slot, value) ==
    IF slot \in DOMAIN self.dispatch_map
    THEN Transition(self, SlotHandler(self, self.dispatch_map[slot], value))
    ELSE self

execute(self, command, arg) ==
    IF command \in DOMAIN self.command_map
    THEN Transition(self, CommandHandler(self, self.command_map[command], arg))
    ELSE self

\* ActorState::state: the state name of the actor's type
state(self) == self.state

\* ------------------------------------------------------------------------
\* Specification: operations applied to an actor value
\* ------------------------------------------------------------------------

\* Every actor value is one the program reaches: create builds the default
\* state with any parameters, the handlers lead from it to every other
\* state, and the hand-written LightBulb::<T>::create builds either state.
NoFactoryCall == [call |-> "none"]

NoFrame == [ok |-> FALSE, update |-> <<>>, command |-> <<>>]

NoPayload == [json |-> FALSE, update |-> <<>>, command |-> <<>>]

NoQuery == [fn |-> "none"]

\* no shell query is made in the specifications of the actors and the runtime
AasNotQueried ==
    /\ aas_query = NoQuery
    /\ aas_result = NoQuery

\* the runtime is not started in the specifications of the actor framework
RuntimeNotStarted ==
    /\ twins_dir = <<>>
    /\ broker = <<>>
    /\ mgr_inbox = <<>>
    /\ mgr_scan = 0
    /\ mgr_twins = {}
    /\ actors = EmptyMap
    /\ runners = <<>>
    /\ inboxes = <<>>
    /\ rx_inbox = <<>>
    /\ asset_channels = EmptyMap
    /\ subscriptions = EmptyMap
    /\ rx_payload = NoPayload
    /\ rx_frame = NoFrame
    /\ rx_pending = <<>>
    /\ nframes = 0
    /\ sent = <<>>
    /\ consumed = <<>>
    /\ panicked = FALSE
    /\ env_log = <<>>

Init ==
    /\ actor \in ActorValues
    /\ initial = actor
    /\ prev = actor
    /\ op = NoOp
    /\ requested = NoTransition
    /\ trace = <<>>
    /\ factory_in = NoFactoryCall
    /\ factory_out = NoFactoryCall
    /\ RuntimeNotStarted
    /\ AasNotQueried

ApplyInputChange(slot, value) ==
    /\ actor' = input_change(actor, slot, value)
    /\ prev' = actor
    /\ op' = [kind |-> "input_change", name |-> slot, value |-> value, arg |-> "{}"]
    /\ requested' = IF slot \in DOMAIN actor.dispatch_map
                    THEN SlotHandler(actor, actor.dispatch_map[slot], value)
                    ELSE NoTransition
    /\ UNCHANGED initial

ApplyExecute(command, arg) ==
    /\ actor' = execute(actor, command, arg)
    /\ prev' = actor
    /\ op' = [kind |-> "execute", name |-> command, value |-> 0, arg |-> arg]
    /\ requested' = IF command \in DOMAIN actor.command_map
                    THEN CommandHandler(actor, actor.command_map[command], arg)
                    ELSE NoTransition
    /\ UNCHANGED initial

InputChange ==
    \E slot \in SlotNames, value \in Values :
        ApplyInputChange(slot, value) /\ UNCHANGED <<trace, factoryVars, runtimeVars, aasVars>>

Execute ==
    \E command \in CommandNames, arg \in Payloads :
        ApplyExecute(command, arg) /\ UNCHANGED <<trace, factoryVars, runtimeVars, aasVars>>

Next == InputChange \/ Execute

Spec == Init /\ [][Next]_vars

\* ------------------------------------------------------------------------
\* Scenario specification: operation sequences applied to a freshly
\* constructed actor, as the unit tests and the end-to-end scenarios do
\* ------------------------------------------------------------------------

\* the literals the tests and scenarios feed: 0.3 0.7 / 1.0 10.0 20.0
ScenarioValues(m) == IF m = "ChargingStation" THEN {10, 100, 200} ELSE {3, 7}

ScenarioSlots(m) ==
    IF m = "ChargingStation"
    THEN {"CurrentPowerDraw", "InputCurrent"}
    ELSE {"CurrentPowerDraw", "power"}

ScenarioCommands(m) ==
    IF m = "ChargingStation"
    THEN {"VehicleDetected", "Reset"}
    ELSE {"SwitchOn", "SwitchOff"}

InitScenario ==
    /\ actor \in {create_default("LightBulb"), create_default("ChargingStation"),
                  LightBulb_create("Off", 5)}
    /\ initial = actor
    /\ prev = actor
    /\ op = NoOp
    /\ requested = NoTransition
    /\ trace = <<>>
    /\ factory_in = NoFactoryCall
    /\ factory_out = NoFactoryCall
    /\ RuntimeNotStarted
    /\ AasNotQueried

ScenarioInputChange ==
    /\ Len(trace) < MaxOps
    /\ \E slot \in ScenarioSlots(actor.model), value \in ScenarioValues(actor.model) :
          /\ ApplyInputChange(slot, value)
          /\ trace' = Append(trace, op')
          /\ UNCHANGED <<factoryVars, runtimeVars, aasVars>>

ScenarioExecute ==
    /\ Len(trace) < MaxOps
    /\ \E command \in ScenarioCommands(actor.model) :
          /\ ApplyExecute(command, "{}")
          /\ trace' = Append(trace, op')
          /\ UNCHANGED <<factoryVars, runtimeVars, aasVars>>

NextScenario == ScenarioInputChange \/ ScenarioExecute

SpecScenario == InitScenario /\ [][NextScenario]_vars

\* ------------------------------------------------------------------------
\* Factory specification: a factory is called with JSON parameters
\* ------------------------------------------------------------------------

\* the models that have a factory
FactoryModels == {"LightBulb", "ChargingStation"}

\* what may stand under one key of the parameter object: nothing, a number
\* an f32 holds (0.7, 8.0), a number with more digits (0.52), a string, null
JsonMembers == {JsonNumber(70), JsonNumber(52), JsonNumber(800), JsonString, JsonNull}

\* the keys tried: the parameter names of the model and one that names none
JsonKeys(m) == DOMAIN default_values(m) \cup {"colour"}

\* the JSON objects over these keys
JsonObjects(m) ==
    UNION {{JsonObject(f) : f \in [keys -> JsonMembers]} : keys \in SUBSET JsonKeys(m)}

\* the parameter values tried: objects, and values that are no object
JsonParams(m) ==
    IF m = "ChargingStation"
    THEN {JsonNull, JsonNumber(70)} \cup
         {o \in JsonObjects(m) :
             \A k \in DOMAIN o.fields : o.fields[k] \in {JsonNumber(52), JsonNumber(800), JsonString}}
    ELSE {JsonNull, JsonNumber(70)} \cup JsonObjects(m)

NoActor == [model |-> "none"]

InitFactory ==
    /\ actor = NoActor
    /\ initial = NoActor
    /\ prev = NoActor
    /\ op = NoOp
    /\ requested = NoTransition
    /\ trace = <<>>
    /\ \E m \in FactoryModels : \E params \in JsonParams(m) :
          factory_in = [call |-> "pending", model |-> m, params |-> params]
    /\ factory_out = NoFactoryCall
    /\ RuntimeNotStarted
    /\ AasNotQueried

CreateDefault ==
    /\ factory_out = NoFactoryCall
    /\ factory_out' = Factory_create_default(factory_in.model)
    /\ UNCHANGED <<factory_in, actorVars, runtimeVars, aasVars>>

CreateWithParams ==
    /\ factory_out = NoFactoryCall
    /\ factory_out' = create_with_params(factory_in.model, factory_in.params)
    /\ UNCHANGED <<factory_in, actorVars, runtimeVars, aasVars>>

NextFactory == CreateDefault \/ CreateWithParams

SpecFactory == InitFactory /\ [][NextFactory]_vars

\* ------------------------------------------------------------------------
\* Runtime: manager, network receiver and twin runners
\* ------------------------------------------------------------------------

\* capacity of every mpsc channel of the program: mpsc::channel(5)
InboxCapacity == 5

\* bound: number of payloads the broker delivers in one behaviour
MaxFrames == 2

\* AssetIDs, as the list of their ':'-separated segments
LightA == <<"urn", "dt", "home", "light", "a">>
StationB == <<"urn", "dt", "home", "charging-station", "b">>
StationC == <<"urn", "dt", "home", "charging-station", "c">>
EvD == <<"urn", "dt", "home", "ev", "d">>
UnknownZ == <<"urn", "dt", "home", "light", "z">>

\* TwinRunner::new: aas.id.split(':').nth(3)
object_type(id) == id[4]

\* TwinRunner::new: the model the object type selects
model_of(kind) ==
    IF kind = "charging-station" THEN "ChargingStation" ELSE "LightBulb"

\* An Asset Administration Shell as a tree. A String of the file that is
\* compared with a part of a '#'-split reference (ids and short names) is
\* the list of its '#'-free pieces: <<"a", "b">> is "a#b" and <<"a">> is
\* "a". Property values are a Value: a string (t = "Str") or another kind.
StrValue(s) == [t |-> "Str", s |-> s, ref |-> <<>>]

IntValue == [t |-> "Int", s |-> "", ref |-> <<>>]

NoValue == [t |-> "None", s |-> "", ref |-> <<>>]

\* SubmodelElement::Property
Property(id_short, value) ==
    [element_type |-> "property", id_short |-> id_short, value |-> value,
     elements |-> <<>>]

\* SubmodelElement::Event
Event(id_short) ==
    [element_type |-> "event", id_short |-> id_short, value |-> NoValue,
     elements |-> <<>>]

\* SubmodelElement::ReferenceElement; the value is the reference string
ReferenceElement(id_short, ref) ==
    [element_type |-> "referenceelement", id_short |-> id_short,
     value |-> [t |-> "Ref", s |-> "", ref |-> ref], elements |-> <<>>]

\* SubmodelElement::Collection (SubmodelCollection.value is elements here)
Collection(id_short, elements) ==
    [element_type |-> "collection", id_short |-> id_short, value |-> NoValue,
     elements |-> elements]

Submodel(id, id_short, elements) ==
    [id |-> id, id_short |-> id_short, elements |-> elements]

Shell(id, submodels) == [id |-> id, submodels |-> submodels]

\* Iterator::find on the submodels: by short name, by id
find_submodel_by_id_short(aas, name) ==
    LET hits == SelectSeq(aas.submodels, LAMBDA m : m.id_short = name)
    IN IF hits = <<>> THEN None ELSE Some(hits[1])

find_submodel_by_id(aas, id) ==
    LET hits == SelectSeq(aas.submodels, LAMBDA m : m.id = id)
    IN IF hits = <<>> THEN None ELSE Some(hits[1])

\* the find_map of find_reference_value_in_collection and of
\* find_elements_in_collection: the first top-level collection of that name
find_top_level_collection(submodel, name) ==
    LET hits == SelectSeq(submodel.elements,
                    LAMBDA e : e.element_type = "collection" /\ e.id_short = name)
    IN IF hits = <<>> THEN None ELSE Some(hits[1])

\* Option::and_then, the ? operator and if let Some(x) = opt { F(x) }: the
\* option is evaluated once, and F gives an option
and_then(opt, F(_)) ==
    CHOOSE r \in {IF o = None THEN None ELSE F(o[1]) : o \in {opt}} : TRUE

\* the value of the option, or the default when it is None
unwrap_or(opt, default) ==
    CHOOSE r \in {IF o = None THEN default ELSE o[1] : o \in {opt}} : TRUE

\* AssetAdministrationShell::find_reference_value_in_collection
find_reference_value_in_collection(aas, submodel_id_short, collection_id_short, reference_element_id_short) ==
    and_then(find_submodel_by_id_short(aas, submodel_id_short), LAMBDA submodel :
    and_then(find_top_level_collection(submodel, collection_id_short), LAMBDA collection :
        LET refs == SelectSeq(collection.elements,
                       LAMBDA e : /\ e.element_type = "referenceelement"
                                  /\ e.id_short = reference_element_id_short)
        IN IF refs = <<>> THEN None ELSE Some(refs[1].value.ref)))

\* AssetAdministrationShell::find_collection_by_id_short, with the loop over
\* the nested elements as find_collection_in
RECURSIVE find_collection_by_id_short(_, _)
RECURSIVE find_collection_in(_, _)
find_collection_by_id_short(collection, target) ==
    IF collection.id_short = target THEN Some(collection)
    ELSE find_collection_in(collection.elements, target)

find_collection_in(elements, target) ==
    IF elements = <<>> THEN None
    ELSE LET found == IF Head(elements).element_type = "collection"
                      THEN find_collection_by_id_short(Head(elements), target)
                      ELSE None
         IN IF found # None THEN found
            ELSE find_collection_in(Tail(elements), target)

\* the find_map of resolve_sensor_reference: the value of the first
\* property of that short name
find_property_value(elements, name) ==
    LET props == SelectSeq(elements,
                    LAMBDA e : e.element_type = "property" /\ e.id_short = name)
    IN IF props = <<>> THEN None ELSE Some(props[1].value)

\* faulty variant of resolve_sensor_reference: the submodel is looked up by
\* its short name
resolve_sensor_reference_by_short(aas, full_ref) ==
    IF Len(full_ref) # 2 THEN None
    ELSE and_then(find_submodel_by_id_short(aas, <<full_ref[1]>>), LAMBDA submodel :
         and_then(find_collection_in(submodel.elements, <<full_ref[2]>>),
            LAMBDA sensor_collection :
         and_then(find_property_value(sensor_collection.elements, <<"SensorID">>),
            LAMBDA sensor_id_prop :
                IF sensor_id_prop.t = "Str" THEN Some(sensor_id_prop.s) ELSE None)))

\* AssetAdministrationShell::resolve_sensor_reference; full_ref.split('#')
\* is full_ref itself, the list of its pieces
resolve_sensor_reference(aas, full_ref) ==
    IF Len(full_ref) # 2 THEN None
    ELSE and_then(find_submodel_by_id(aas, <<full_ref[1]>>), LAMBDA submodel :
         and_then(find_collection_in(submodel.elements, <<full_ref[2]>>),
            LAMBDA sensor_collection :
         and_then(find_property_value(sensor_collection.elements, <<"SensorID">>),
            LAMBDA sensor_id_prop :
                IF sensor_id_prop.t = "Str" THEN Some(sensor_id_prop.s) ELSE None)))

\* AssetAdministrationShell::gather_sensor_ids_in_collection, over the
\* elements of the collection
RECURSIVE gather_sensor_ids_in_collection(_, _, _)
gather_sensor_ids_in_collection(elements, target, result) ==
    IF elements = <<>> THEN result
    ELSE LET element == Head(elements)
         IN gather_sensor_ids_in_collection(Tail(elements), target,
               IF element.element_type = "collection"
               THEN gather_sensor_ids_in_collection(element.elements, target, result)
               ELSE IF /\ element.element_type = "property"
                       /\ element.id_short = target
                       /\ element.value.t = "Str"
               THEN Append(result, element.value.s)
               ELSE result)

\* faulty variant of find_elements_in_collection: the collection is looked
\* up at any depth
find_elements_in_collection_nested(aas, submodel, collection, target) ==
    LET sm == find_submodel_by_id_short(aas, submodel)
        sensors_collection == IF sm = None THEN None
                              ELSE find_collection_in(sm[1].elements, collection)
    IN IF sensors_collection = None THEN <<>>
       ELSE gather_sensor_ids_in_collection(sensors_collection[1].elements, target, <<>>)

\* AssetAdministrationShell::find_elements_in_collection
find_elements_in_collection(aas, submodel, collection, target) ==
    LET sm == find_submodel_by_id_short(aas, submodel)
        sensors_collection == IF sm = None THEN None
                              ELSE find_top_level_collection(sm[1], collection)
    IN IF sensors_collection = None THEN <<>>
       ELSE gather_sensor_ids_in_collection(sensors_collection[1].elements, target, <<>>)

\* TwinRunner::init: the sensor ids of the shell
sensor_ids(aas) ==
    find_elements_in_collection(aas, <<"IoTDataSources">>, <<"Sensors">>, <<"SensorID">>)

\* TwinRunner::init, the loop over the slots: slot_map.insert(sensor, slot)
RECURSIVE build_slot_map(_, _, _)
build_slot_map(aas, sl, map) ==
    IF sl = <<>> THEN map
    ELSE LET inserted ==
                 and_then(find_reference_value_in_collection(aas,
                              <<"PowerAndElectrical">>, <<Head(sl)>>, <<"DataSource">>),
                    LAMBDA ref :
                 and_then(resolve_sensor_reference(aas, ref),
                    LAMBDA sensor : Some((sensor :> Head(sl)) @@ map)))
         IN build_slot_map(aas, Tail(sl), unwrap_or(inserted, map))

\* a sensor of IoTDataSources/Sensors: a collection holding its SensorID
Sensor(id_short, sensor_id) ==
    Collection(<<id_short>>, <<Property(<<"SensorID">>, StrValue(sensor_id))>>)

\* a slot of PowerAndElectrical: a collection holding the DataSource
\* reference to a sensor of the data sources submodel
DataSource(slot, sensor) ==
    Collection(<<slot>>,
        <<ReferenceElement(<<"DataSource">>, <<"urn:dt:datasources", sensor>>)>>)

\* a shell of the layout the runner reads
TwinShell(id, data_sources, sensors) ==
    Shell(id, <<Submodel(<<"urn:dt:power">>, <<"PowerAndElectrical">>, data_sources),
                Submodel(<<"urn:dt:datasources">>, <<"IoTDataSources">>,
                         <<Collection(<<"Sensors">>, sensors)>>)>>)

\* the shells of the deployment; the light lists a sensor no slot refers to
ShellA ==
    TwinShell(LightA, <<DataSource("CurrentPowerDraw", "SensorPower")>>,
              <<Sensor("SensorPower", "s1"), Sensor("SensorAux", "s2")>>)

ShellB ==
    TwinShell(StationB,
              <<DataSource("CurrentPowerDraw", "SensorPower"),
                DataSource("InputCurrent", "SensorCurrent")>>,
              <<Sensor("SensorPower", "s1"), Sensor("SensorCurrent", "s2")>>)

ShellC ==
    TwinShell(StationC, <<DataSource("InputCurrent", "SensorCurrent")>>,
              <<Sensor("SensorCurrent", "s2")>>)

ShellD == TwinShell(EvD, <<>>, <<>>)

\* an entry of ./twins: whether its extension is yaml, whether File::open
\* succeeds, whether from_reader parses it, and the shell it holds
DirEntry(yaml, opens, parses, aas) ==
    [yaml |-> yaml, opens |-> opens, parses |-> parses, aas |-> aas]

\* a yaml file that holds the shell
TwinFile(aas) == DirEntry(TRUE, TRUE, TRUE, aas)

\* ./twins as read_dir lists it
Directories == {<<TwinFile(ShellA), TwinFile(ShellB)>>,
                <<TwinFile(ShellB), TwinFile(ShellA)>>}

\* TwinRunner::new: the object types the match knows
KnownKinds == {"light", "ev", "charging-station"}

\* TwinRunner::new returns: the id has a 4th segment and the match knows it
\* (nth(3).unwrap() and the catch-all arm panic otherwise)
constructible(id) == Len(id) >= 4 /\ object_type(id) \in KnownKinds

\* ActorMessage
InputChangeMsg(obj_id, value) ==
    [kind |-> "InputChange", name |-> obj_id, value |-> value, arg |-> "{}"]

CommandMsg(command, args) ==
    [kind |-> "Command", name |-> command, value |-> 0, arg |-> args]

\* ManagerMessage
Initialize == [type |-> "Initialize", id |-> <<>>, ch |-> 0]

ManagerRegister(id, ch) == [type |-> "Register", id |-> id, ch |-> ch]

\* NetworkMessage
NetworkRegister(src, ch) ==
    [type |-> "Register", src |-> src, ch |-> ch, oids |-> <<>>]

NetworkSubscribe(src, oids) ==
    [type |-> "Subscribe", src |-> src, ch |-> 0, oids |-> oids]

\* faulty variant of insert: an existing entry is kept
insert_if_absent(map, k, v) ==
    [x \in DOMAIN map \cup {k} |-> IF x \in DOMAIN map THEN map[x] ELSE v]

\* HashMap::insert
insert(map, k, v) == [x \in DOMAIN map \cup {k} |-> IF x = k THEN v ELSE map[x]]

\* TwinRunner::new
TwinRunner_new(aas) ==
    LET made == Factory_create_default(model_of(object_type(aas.id)))
    IN [aas |-> aas, inner_state |-> made.actor, slots |-> made.slots,
        slot_map |-> EmptyMap, pc |-> "register_manager"]

\* a payload on the wire: json says whether the bytes are JSON at all; the
\* update and command members are absent (None) or objects whose members
\* are absent (None) or present
WireUpdate(object, value) == Some([object |-> object, value |-> value])

WireCommand(target, command, args) ==
    Some([target |-> target, command |-> command, args |-> args])

Payload(json, update, command) ==
    [json |-> json, update |-> update, command |-> command]

\* serde: Update { object: DeviceID, value: f32 }
Update_decodes(u) ==
    /\ u.object # None
    /\ u.value # None
    /\ as_f64(u.value[1]) # None

\* serde: Command { target: AssetID, command: String, args: Value }
Command_decodes(c) ==
    /\ c.target # None
    /\ c.command # None
    /\ c.args # None

\* faulty variant of from_slice: an ill-formed member is dropped and the
\* other member kept
from_slice_lenient(p) ==
    IF p.json
    THEN [ok |-> TRUE,
          update |-> IF p.update = None \/ ~Update_decodes(p.update[1]) THEN None
                     ELSE Some([object |-> p.update[1].object[1],
                                value |-> as_f32(as_f64(p.update[1].value[1])[1])]),
          command |-> IF p.command = None \/ ~Command_decodes(p.command[1]) THEN None
                      ELSE Some([target |-> p.command[1].target[1],
                                 command |-> p.command[1].command[1],
                                 args |-> p.command[1].args[1]])]
    ELSE NoFrame

\* serde_json::from_slice::<Message>: one ill-formed member fails the whole
\* message
from_slice(p) ==
    IF /\ p.json
       /\ p.update # None => Update_decodes(p.update[1])
       /\ p.command # None => Command_decodes(p.command[1])
    THEN [ok |-> TRUE,
          update |-> IF p.update = None THEN None
                     ELSE Some([object |-> p.update[1].object[1],
                                value |-> as_f32(as_f64(p.update[1].value[1])[1])]),
          command |-> IF p.command = None THEN None
                      ELSE Some([target |-> p.command[1].target[1],
                                 command |-> p.command[1].command[1],
                                 args |-> p.command[1].args[1]])]
    ELSE NoFrame

\* the payloads the broker may deliver
Payloads_wire ==
    { Payload(TRUE, WireUpdate(Some("s1"), Some(JsonNumber(70))), None),
      Payload(TRUE, WireUpdate(Some("s2"), Some(JsonNumber(2000))), None),
      Payload(TRUE, WireUpdate(Some("s9"), Some(JsonNumber(70))), None),
      Payload(TRUE, None, WireCommand(Some(StationB), Some("VehicleDetected"), Some("{}"))),
      Payload(TRUE, None, WireCommand(Some(UnknownZ), Some("SwitchOn"), Some("{}"))),
      Payload(TRUE, WireUpdate(Some("s1"), Some(JsonNumber(30))),
                    WireCommand(Some(LightA), Some("SwitchOn"), Some("{}"))),
      Payload(FALSE, None, None),
      Payload(TRUE, WireUpdate(Some("s1"), None),
                    WireCommand(Some(LightA), Some("SwitchOn"), Some("{}"))),
      Payload(TRUE, WireUpdate(Some("s1"), Some(JsonNumber(70))),
                    WireCommand(Some(LightA), Some("SwitchOn"), None)) }

\* faulty variant of update_sends: only the first subscriber is served
update_sends_first(message) ==
    IF message.update = None THEN <<>>
    ELSE LET update == message.update[1]
         IN IF update.object \notin DOMAIN subscriptions THEN <<>>
            ELSE LET channels == SelectSeq(subscriptions[update.object],
                                    LAMBDA aid : aid \in DOMAIN asset_channels)
                 IN [k \in 1..(IF channels = <<>> THEN 0 ELSE 1) |->
                       [ch |-> asset_channels[channels[k]],
                        msg |-> InputChangeMsg(update.object, update.value)]]

\* faulty variant of update_sends: an update whose device has a subscriber
\* list goes to every inbox
update_sends_broadcast(message) ==
    IF message.update = None THEN <<>>
    ELSE LET update == message.update[1]
         IN IF update.object \notin DOMAIN subscriptions THEN <<>>
            ELSE [k \in DOMAIN inboxes |->
                    [ch |-> k, msg |-> InputChangeMsg(update.object, update.value)]]

\* NetworkReceiver::body, update routing: one InputChange per entry of the
\* subscriber list whose AssetID has a channel, in list order
update_sends(message) ==
    IF message.update = None THEN <<>>
    ELSE LET update == message.update[1]
         IN IF update.object \notin DOMAIN subscriptions THEN <<>>
            ELSE LET channels == SelectSeq(subscriptions[update.object],
                                    LAMBDA aid : aid \in DOMAIN asset_channels)
                 IN [k \in 1..Len(channels) |->
                       [ch |-> asset_channels[channels[k]],
                        msg |-> InputChangeMsg(update.object, update.value)]]

\* faulty variant of command_sends: a command for an unregistered target
\* goes to some registered inbox
command_sends_any(message) ==
    IF message.command = None THEN <<>>
    ELSE LET cmd == message.command[1]
         IN IF cmd.target \in DOMAIN asset_channels
            THEN <<[ch |-> asset_channels[cmd.target],
                    msg |-> CommandMsg(cmd.command, cmd.args)]>>
            ELSE IF DOMAIN asset_channels = {} THEN <<>>
            ELSE <<[ch |-> asset_channels[CHOOSE a \in DOMAIN asset_channels : TRUE],
                    msg |-> CommandMsg(cmd.command, cmd.args)]>>

\* NetworkReceiver::body, command routing
command_sends(message) ==
    IF message.command = None THEN <<>>
    ELSE LET cmd == message.command[1]
         IN IF cmd.target \in DOMAIN asset_channels
            THEN <<[ch |-> asset_channels[cmd.target],
                    msg |-> CommandMsg(cmd.command, cmd.args)]>>
            ELSE <<>>

\* faulty variant of push_subscriber: an asset already on the list is not
\* appended again
push_subscriber_dedup(subs, oid, src) ==
    LET old == IF oid \in DOMAIN subs THEN subs[oid] ELSE <<>>
    IN IF \E k \in DOMAIN old : old[k] = src THEN subs
       ELSE insert(subs, oid, Append(old, src))

\* subscriptions.entry(oid).or_default().push(src)
push_subscriber(subs, oid, src) ==
    LET old == IF oid \in DOMAIN subs THEN subs[oid] ELSE <<>>
    IN insert(subs, oid, Append(old, src))

\* NetworkReceiver::body, Subscribe: push src on the list of every oid
RECURSIVE subscribe(_, _, _)
subscribe(subs, src, oids) ==
    IF oids = <<>> THEN subs
    ELSE subscribe(push_subscriber(subs, Head(oids), src), src, Tail(oids))

\* faulty variant of body_step: the DeviceID is used as the slot name
body_step_by_device(twin, msg) ==
    IF msg.kind = "InputChange"
    THEN input_change(twin.inner_state, msg.name, msg.value)
    ELSE execute(twin.inner_state, msg.name, msg.arg)

\* twin_runner::body, one message
body_step(twin, msg) ==
    IF msg.kind = "InputChange"
    THEN IF msg.name \in DOMAIN twin.slot_map
         THEN input_change(twin.inner_state, twin.slot_map[msg.name], msg.value)
         ELSE twin.inner_state
    ELSE execute(twin.inner_state, msg.name, msg.arg)

\* the actor framework's variables are not used by the runtime
ActorNotStarted ==
    /\ actor = NoActor
    /\ initial = NoActor
    /\ prev = NoActor
    /\ op = NoOp
    /\ requested = NoTransition
    /\ trace = <<>>
    /\ factory_in = NoFactoryCall
    /\ factory_out = NoFactoryCall

\* main: both components constructed, Initialize sent to the manager
InitDeployment(dirs, payloads, frames) ==
    /\ ActorNotStarted
    /\ AasNotQueried
    /\ twins_dir \in dirs
    /\ broker = [payloads |-> payloads, remaining |-> frames]
    /\ mgr_inbox = <<Initialize>>
    /\ mgr_scan = 0
    /\ mgr_twins = {}
    /\ actors = EmptyMap
    /\ runners = <<>>
    /\ inboxes = <<>>
    /\ rx_inbox = <<>>
    /\ asset_channels = EmptyMap
    /\ subscriptions = EmptyMap
    /\ rx_payload = NoPayload
    /\ rx_frame = NoFrame
    /\ rx_pending = <<>>
    /\ nframes = 0
    /\ sent = <<>>
    /\ consumed = <<>>
    /\ panicked = FALSE
    /\ env_log = <<>>

InitRuntime == InitDeployment(Directories, Payloads_wire, MaxFrames)

\* Manager::body: one message of recv_ch
ManagerRecv ==
    /\ ~panicked
    /\ mgr_scan = 0
    /\ mgr_inbox # <<>>
    /\ LET msg == Head(mgr_inbox)
       IN IF msg.type = "Register"
          THEN /\ actors' = insert(actors, msg.id, msg.ch)
               /\ UNCHANGED <<mgr_scan, mgr_twins>>
          ELSE /\ mgr_scan' = IF twins_dir = <<>> THEN 0 ELSE 1
               /\ mgr_twins' = {}
               /\ UNCHANGED actors
    /\ mgr_inbox' = Tail(mgr_inbox)
    /\ UNCHANGED <<twins_dir, broker, runners, inboxes, rx_inbox, asset_channels,
                   subscriptions, rx_frame, rx_pending, nframes, sent, consumed>>
    /\ UNCHANGED <<rx_payload, panicked, env_log, actorVars, factoryVars, aasVars>>

\* faulty variant of ManagerScanFile: the AssetID is not looked up in the set
\* of accepted ids
ManagerScanFile_unchecked ==
    /\ ~panicked
    /\ mgr_scan \in 1..Len(twins_dir)
    /\ LET entry == twins_dir[mgr_scan]
           next == IF mgr_scan = Len(twins_dir) THEN 0 ELSE mgr_scan + 1
       IN IF ~entry.yaml \/ ~entry.opens
          THEN /\ mgr_scan' = next
               /\ UNCHANGED <<mgr_twins, runners, inboxes, consumed, panicked>>
          ELSE IF ~entry.parses
          THEN /\ mgr_scan' = 0
               /\ UNCHANGED <<mgr_twins, runners, inboxes, consumed, panicked>>
          ELSE IF ~constructible(entry.aas.id)
          THEN /\ panicked' = TRUE
               /\ mgr_twins' = mgr_twins \cup {entry.aas.id}
               /\ UNCHANGED <<mgr_scan, runners, inboxes, consumed>>
          ELSE /\ mgr_scan' = next
               /\ mgr_twins' = mgr_twins \cup {entry.aas.id}
               /\ runners' = Append(runners, TwinRunner_new(entry.aas))
               /\ inboxes' = Append(inboxes, <<>>)
               /\ consumed' = Append(consumed, <<>>)
               /\ UNCHANGED panicked
    /\ UNCHANGED <<twins_dir, broker, mgr_inbox, actors, rx_inbox, asset_channels,
                   subscriptions, rx_frame, rx_pending, nframes, sent>>
    /\ UNCHANGED <<rx_payload, env_log, actorVars, factoryVars, aasVars>>

\* Manager::initialize_dtwins: one entry of the directory. An entry that is
\* no yaml file or cannot be opened is passed over; a parse error returns
\* from the scan (the `?`), which Manager::body logs; a duplicate AssetID is
\* passed over; TwinRunner::new panics on an id it cannot construct, and the
\* panic unwinds Manager::body and with it main
ManagerScanFile ==
    /\ ~panicked
    /\ mgr_scan \in 1..Len(twins_dir)
    /\ LET entry == twins_dir[mgr_scan]
           next == IF mgr_scan = Len(twins_dir) THEN 0 ELSE mgr_scan + 1
       IN IF ~entry.yaml \/ ~entry.opens
          THEN /\ mgr_scan' = next
               /\ UNCHANGED <<mgr_twins, runners, inboxes, consumed, panicked>>
          ELSE IF ~entry.parses
          THEN /\ mgr_scan' = 0
               /\ UNCHANGED <<mgr_twins, runners, inboxes, consumed, panicked>>
          ELSE IF entry.aas.id \in mgr_twins
          THEN /\ mgr_scan' = next
               /\ UNCHANGED <<mgr_twins, runners, inboxes, consumed, panicked>>
          ELSE IF ~constructible(entry.aas.id)
          THEN /\ panicked' = TRUE
               /\ mgr_twins' = mgr_twins \cup {entry.aas.id}
               /\ UNCHANGED <<mgr_scan, runners, inboxes, consumed>>
          ELSE /\ mgr_scan' = next
               /\ mgr_twins' = mgr_twins \cup {entry.aas.id}
               /\ runners' = Append(runners, TwinRunner_new(entry.aas))
               /\ inboxes' = Append(inboxes, <<>>)
               /\ consumed' = Append(consumed, <<>>)
               /\ UNCHANGED panicked
    /\ UNCHANGED <<twins_dir, broker, mgr_inbox, actors, rx_inbox, asset_channels,
                   subscriptions, rx_frame, rx_pending, nframes, sent>>
    /\ UNCHANGED <<rx_payload, env_log, actorVars, factoryVars, aasVars>>

\* TwinRunner::init: Register sent to the manager
TwinRegisterManager(i) ==
    /\ ~panicked
    /\ runners[i].pc = "register_manager"
    /\ Len(mgr_inbox) < InboxCapacity
    /\ mgr_inbox' = Append(mgr_inbox, ManagerRegister(runners[i].aas.id, i))
    /\ runners' = [runners EXCEPT ![i].pc = "register_receiver"]
    /\ UNCHANGED <<twins_dir, broker, mgr_scan, mgr_twins, actors, inboxes,
                   rx_inbox, asset_channels, subscriptions, rx_frame, rx_pending,
                   nframes, sent, consumed>>
    /\ UNCHANGED <<rx_payload, panicked, env_log, actorVars, factoryVars, aasVars>>

\* faulty variant of TwinRegisterReceiver: the Register is not sent
TwinRegisterReceiver_unsent(i) ==
    /\ ~panicked
    /\ runners[i].pc = "register_receiver"
    /\ runners' = [runners EXCEPT
          ![i].slot_map = build_slot_map(runners[i].aas, runners[i].slots, EmptyMap),
          ![i].pc = IF sensor_ids(runners[i].aas) = <<>>
                    THEN "run" ELSE "subscribe"]
    /\ UNCHANGED <<twins_dir, broker, mgr_inbox, mgr_scan, mgr_twins, actors,
                   inboxes, rx_inbox, asset_channels, subscriptions, rx_frame,
                   rx_pending, nframes, sent, consumed>>
    /\ UNCHANGED <<rx_payload, panicked, env_log, actorVars, factoryVars, aasVars>>

\* faulty variant of TwinRegisterReceiver: one unresolved slot leaves the
\* whole slot map empty
TwinRegisterReceiver_all_or_nothing(i) ==
    /\ ~panicked
    /\ runners[i].pc = "register_receiver"
    /\ Len(rx_inbox) < InboxCapacity
    /\ rx_inbox' = Append(rx_inbox, NetworkRegister(runners[i].aas.id, i))
    /\ runners' = [runners EXCEPT
          ![i].slot_map =
              LET map == build_slot_map(runners[i].aas, runners[i].slots, EmptyMap)
              IN IF Cardinality(DOMAIN map) = Len(runners[i].slots)
                 THEN map ELSE EmptyMap,
          ![i].pc = IF sensor_ids(runners[i].aas) = <<>>
                    THEN "run" ELSE "subscribe"]
    /\ UNCHANGED <<twins_dir, broker, mgr_inbox, mgr_scan, mgr_twins, actors,
                   inboxes, asset_channels, subscriptions, rx_frame, rx_pending,
                   nframes, sent, consumed>>
    /\ UNCHANGED <<rx_payload, panicked, env_log, actorVars, factoryVars, aasVars>>

\* TwinRunner::init: Register sent to the receiver, then the slot map built;
\* init returns when the shell lists no sensor
TwinRegisterReceiver(i) ==
    /\ ~panicked
    /\ runners[i].pc = "register_receiver"
    /\ Len(rx_inbox) < InboxCapacity
    /\ rx_inbox' = Append(rx_inbox, NetworkRegister(runners[i].aas.id, i))
    /\ runners' = [runners EXCEPT
          ![i].slot_map = build_slot_map(runners[i].aas, runners[i].slots, EmptyMap),
          ![i].pc = IF sensor_ids(runners[i].aas) = <<>>
                    THEN "run" ELSE "subscribe"]
    /\ UNCHANGED <<twins_dir, broker, mgr_inbox, mgr_scan, mgr_twins, actors,
                   inboxes, asset_channels, subscriptions, rx_frame, rx_pending,
                   nframes, sent, consumed>>
    /\ UNCHANGED <<rx_payload, panicked, env_log, actorVars, factoryVars, aasVars>>

\* faulty variant of TwinSubscribe: only the first sensor is subscribed to
TwinSubscribe_first_only(i) ==
    /\ ~panicked
    /\ runners[i].pc = "subscribe"
    /\ Len(rx_inbox) < InboxCapacity
    /\ rx_inbox' = Append(rx_inbox,
          NetworkSubscribe(runners[i].aas.id, <<Head(sensor_ids(runners[i].aas))>>))
    /\ runners' = [runners EXCEPT ![i].pc = "run"]
    /\ UNCHANGED <<twins_dir, broker, mgr_inbox, mgr_scan, mgr_twins, actors,
                   inboxes, asset_channels, subscriptions, rx_frame, rx_pending,
                   nframes, sent, consumed>>
    /\ UNCHANGED <<rx_payload, panicked, env_log, actorVars, factoryVars, aasVars>>

\* TwinRunner::init: Subscribe sent to the receiver
TwinSubscribe(i) ==
    /\ ~panicked
    /\ runners[i].pc = "subscribe"
    /\ Len(rx_inbox) < InboxCapacity
    /\ rx_inbox' = Append(rx_inbox,
          NetworkSubscribe(runners[i].aas.id, sensor_ids(runners[i].aas)))
    /\ runners' = [runners EXCEPT ![i].pc = "run"]
    /\ UNCHANGED <<twins_dir, broker, mgr_inbox, mgr_scan, mgr_twins, actors,
                   inboxes, asset_channels, subscriptions, rx_frame, rx_pending,
                   nframes, sent, consumed>>
    /\ UNCHANGED <<rx_payload, panicked, env_log, actorVars, factoryVars, aasVars>>

\* faulty variant of TwinConsume: the newest message is taken first
TwinConsume_newest(i) ==
    /\ ~panicked
    /\ runners[i].pc = "run"
    /\ inboxes[i] # <<>>
    /\ LET n == Len(inboxes[i])
       IN /\ runners' = [runners EXCEPT
                ![i].inner_state = body_step(runners[i], inboxes[i][n])]
          /\ consumed' = [consumed EXCEPT ![i] = Append(@, inboxes[i][n])]
          /\ inboxes' = [inboxes EXCEPT ![i] = SubSeq(@, 1, n - 1)]
    /\ UNCHANGED <<twins_dir, broker, mgr_inbox, mgr_scan, mgr_twins, actors,
                   rx_inbox, asset_channels, subscriptions, rx_frame, rx_pending,
                   nframes, sent>>
    /\ UNCHANGED <<rx_payload, panicked, env_log, actorVars, factoryVars, aasVars>>

\* faulty variant of TwinConsume: the inbox is read before init is over
TwinConsume_during_init(i) ==
    /\ ~panicked
    /\ inboxes[i] # <<>>
    /\ runners' = [runners EXCEPT
          ![i].inner_state = body_step(runners[i], Head(inboxes[i]))]
    /\ consumed' = [consumed EXCEPT ![i] = Append(@, Head(inboxes[i]))]
    /\ inboxes' = [inboxes EXCEPT ![i] = Tail(@)]
    /\ UNCHANGED <<twins_dir, broker, mgr_inbox, mgr_scan, mgr_twins, actors,
                   rx_inbox, asset_channels, subscriptions, rx_frame, rx_pending,
                   nframes, sent>>
    /\ UNCHANGED <<rx_payload, panicked, env_log, actorVars, factoryVars, aasVars>>

\* twin_runner::body: the head of the inbox applied to the actor
TwinConsume(i) ==
    /\ ~panicked
    /\ runners[i].pc = "run"
    /\ inboxes[i] # <<>>
    /\ runners' = [runners EXCEPT
          ![i].inner_state = body_step(runners[i], Head(inboxes[i]))]
    /\ consumed' = [consumed EXCEPT ![i] = Append(@, Head(inboxes[i]))]
    /\ inboxes' = [inboxes EXCEPT ![i] = Tail(@)]
    /\ UNCHANGED <<twins_dir, broker, mgr_inbox, mgr_scan, mgr_twins, actors,
                   rx_inbox, asset_channels, subscriptions, rx_frame, rx_pending,
                   nframes, sent>>
    /\ UNCHANGED <<rx_payload, panicked, env_log, actorVars, factoryVars, aasVars>>

\* NetworkReceiver::body: one message of recv_ch
ReceiverRecv ==
    /\ ~panicked
    /\ rx_pending = <<>>
    /\ rx_inbox # <<>>
    /\ LET msg == Head(rx_inbox)
       IN IF msg.type = "Subscribe"
          THEN /\ subscriptions' = subscribe(subscriptions, msg.src, msg.oids)
               /\ UNCHANGED asset_channels
          ELSE /\ asset_channels' = insert(asset_channels, msg.src, msg.ch)
               /\ UNCHANGED subscriptions
    /\ rx_inbox' = Tail(rx_inbox)
    /\ UNCHANGED <<twins_dir, broker, mgr_inbox, mgr_scan, mgr_twins, actors,
                   runners, inboxes, rx_frame, rx_pending, nframes, sent, consumed>>
    /\ UNCHANGED <<rx_payload, panicked, env_log, actorVars, factoryVars, aasVars>>

\* faulty variant of ReceiverPoll: the command of a payload is routed before
\* its update
ReceiverPoll_command_first ==
    /\ ~panicked
    /\ rx_pending = <<>>
    /\ broker.remaining > 0
    /\ \E p \in broker.payloads :
          LET message == from_slice(p)
          IN /\ rx_payload' = p
             /\ rx_frame' = message
             /\ rx_pending' = IF message.ok
                              THEN command_sends(message) \o update_sends(message)
                              ELSE <<>>
    /\ broker' = [broker EXCEPT !.remaining = @ - 1]
    /\ nframes' = nframes + 1
    /\ UNCHANGED <<twins_dir, mgr_inbox, mgr_scan, mgr_twins, actors, runners,
                   inboxes, rx_inbox, asset_channels, subscriptions, sent, consumed>>
    /\ UNCHANGED <<panicked, env_log, actorVars, factoryVars, aasVars>>

\* faulty variant of ReceiverPoll: a payload that fails to decode empties the
\* subscription table
ReceiverPoll_reset ==
    /\ ~panicked
    /\ rx_pending = <<>>
    /\ broker.remaining > 0
    /\ \E p \in broker.payloads :
          LET message == from_slice(p)
          IN /\ rx_payload' = p
             /\ rx_frame' = message
             /\ rx_pending' = IF message.ok
                              THEN update_sends(message) \o command_sends(message)
                              ELSE <<>>
             /\ subscriptions' = IF message.ok THEN subscriptions ELSE EmptyMap
    /\ broker' = [broker EXCEPT !.remaining = @ - 1]
    /\ nframes' = nframes + 1
    /\ UNCHANGED <<twins_dir, mgr_inbox, mgr_scan, mgr_twins, actors, runners,
                   inboxes, rx_inbox, asset_channels, sent, consumed>>
    /\ UNCHANGED <<panicked, env_log, actorVars, factoryVars, aasVars>>

\* NetworkReceiver::body: a Publish packet polled and decoded; the sends it
\* calls for are then done one at a time
ReceiverPoll ==
    /\ ~panicked
    /\ rx_pending = <<>>
    /\ broker.remaining > 0
    /\ \E p \in broker.payloads :
          LET message == from_slice(p)
          IN /\ rx_payload' = p
             /\ rx_frame' = message
             /\ rx_pending' = IF message.ok
                              THEN update_sends(message) \o command_sends(message)
                              ELSE <<>>
    /\ broker' = [broker EXCEPT !.remaining = @ - 1]
    /\ nframes' = nframes + 1
    /\ UNCHANGED <<twins_dir, mgr_inbox, mgr_scan, mgr_twins, actors, runners,
                   inboxes, rx_inbox, asset_channels, subscriptions, sent, consumed>>
    /\ UNCHANGED <<panicked, env_log, actorVars, factoryVars, aasVars>>

\* faulty variant of ReceiverSend: try_send, which gives the message up when
\* the inbox is full
ReceiverSend_try_send ==
    /\ ~panicked
    /\ rx_pending # <<>>
    /\ LET s == Head(rx_pending)
       IN IF Len(inboxes[s.ch]) < InboxCapacity
          THEN /\ inboxes' = [inboxes EXCEPT ![s.ch] = Append(@, s.msg)]
               /\ sent' = Append(sent, [frame |-> nframes, ch |-> s.ch, msg |-> s.msg])
          ELSE UNCHANGED <<inboxes, sent>>
    /\ rx_pending' = Tail(rx_pending)
    /\ UNCHANGED <<twins_dir, broker, mgr_inbox, mgr_scan, mgr_twins, actors,
                   runners, rx_inbox, asset_channels, subscriptions, rx_frame,
                   nframes, consumed>>
    /\ UNCHANGED <<rx_payload, panicked, env_log, actorVars, factoryVars, aasVars>>

\* NetworkReceiver::body: ch.send(..).await, which waits while the inbox is
\* full
ReceiverSend ==
    /\ ~panicked
    /\ rx_pending # <<>>
    /\ LET s == Head(rx_pending)
       IN /\ Len(inboxes[s.ch]) < InboxCapacity
          /\ inboxes' = [inboxes EXCEPT ![s.ch] = Append(@, s.msg)]
          /\ sent' = Append(sent, [frame |-> nframes, ch |-> s.ch, msg |-> s.msg])
    /\ rx_pending' = Tail(rx_pending)
    /\ UNCHANGED <<twins_dir, broker, mgr_inbox, mgr_scan, mgr_twins, actors,
                   runners, rx_inbox, asset_channels, subscriptions, rx_frame,
                   nframes, consumed>>
    /\ UNCHANGED <<rx_payload, panicked, env_log, actorVars, factoryVars, aasVars>>

NextRuntime ==
    \/ ManagerRecv
    \/ ManagerScanFile
    \/ \E i \in DOMAIN runners : TwinRegisterManager(i)
    \/ \E i \in DOMAIN runners : TwinRegisterReceiver(i)
    \/ \E i \in DOMAIN runners : TwinSubscribe(i)
    \/ \E i \in DOMAIN runners : TwinConsume(i)
    \/ ReceiverRecv
    \/ ReceiverPoll
    \/ ReceiverSend

SpecRuntime == InitRuntime /\ [][NextRuntime]_vars

\* ------------------------------------------------------------------------
\* Specification: bootstrap over directories with unusable entries
\* ------------------------------------------------------------------------

\* bound: number of entries of an enumerated directory
MaxFiles == 2

\* AssetIDs TwinRunner::new cannot construct a runner for
ToasterT == <<"urn", "dt", "home", "toaster", "t">>
ShortS == <<"urn", "dt", "s">>

\* a second description of the light bulb's AssetID
ShellA2 == TwinShell(LightA, <<>>, <<>>)

\* the entries a directory is made of
BootEntries ==
    { TwinFile(ShellA), TwinFile(ShellA2), TwinFile(ShellB),
      DirEntry(TRUE, TRUE, FALSE, ShellC),
      DirEntry(FALSE, TRUE, TRUE, ShellC),
      DirEntry(TRUE, FALSE, TRUE, ShellC),
      TwinFile(TwinShell(ToasterT, <<>>, <<>>)),
      TwinFile(TwinShell(ShortS, <<>>, <<>>)) }

BootDirectories ==
    UNION {[1..n -> BootEntries] : n \in 1..MaxFiles}
      \cup {<<TwinFile(ShellA), TwinFile(ShellA2), TwinFile(ShellB)>>}

InitBootstrap == InitDeployment(BootDirectories, {}, 0)

NextBootstrap ==
    \/ ManagerRecv
    \/ ManagerScanFile
    \/ \E i \in DOMAIN runners : TwinRegisterManager(i)
    \/ \E i \in DOMAIN runners : TwinRegisterReceiver(i)
    \/ \E i \in DOMAIN runners : TwinSubscribe(i)
    \/ ReceiverRecv

SpecBootstrap == InitBootstrap /\ [][NextBootstrap]_vars

\* ------------------------------------------------------------------------
\* Specification: the tables of the manager and the receiver under the
\* messages any holder of their channels can send
\* ------------------------------------------------------------------------

\* bound: number of messages sent on the channels of get_channel()
MaxEnv == 3

\* Register messages offered to the manager
ManagerMessages == {ManagerRegister(LightA, ch) : ch \in {1, 2}}

\* Register and Subscribe messages offered to the receiver
NetworkMessages ==
    {NetworkRegister(a, ch) : a \in {LightA, StationB}, ch \in {1, 2}}
      \cup {NetworkSubscribe(LightA, ds) : ds \in {<<"s1">>, <<"s1", "s1">>}}

\* the payloads the broker may deliver
TablePayloads ==
    { Payload(TRUE, WireUpdate(Some("s1"), Some(JsonNumber(70))), None),
      Payload(TRUE, None, WireCommand(Some(LightA), Some("SwitchOn"), Some("{}"))) }

\* the runners of a directory as initialize_dtwins spawns them
RECURSIVE spawned(_)
spawned(dir) ==
    IF dir = <<>> THEN <<>>
    ELSE Append(spawned(SubSeq(dir, 1, Len(dir) - 1)), TwinRunner_new(dir[Len(dir)].aas))

\* the state of the program when initialize_dtwins has returned and no
\* runner has made a step yet
InitTables ==
    /\ ActorNotStarted
    /\ AasNotQueried
    /\ twins_dir = <<TwinFile(ShellA), TwinFile(ShellB)>>
    /\ broker = [payloads |-> TablePayloads, remaining |-> MaxFrames]
    /\ mgr_inbox = <<>>
    /\ mgr_scan = 0
    /\ mgr_twins = {LightA, StationB}
    /\ actors = EmptyMap
    /\ runners = spawned(twins_dir)
    /\ inboxes = <<<<>>, <<>>>>
    /\ rx_inbox = <<>>
    /\ asset_channels = EmptyMap
    /\ subscriptions = EmptyMap
    /\ rx_payload = NoPayload
    /\ rx_frame = NoFrame
    /\ rx_pending = <<>>
    /\ nframes = 0
    /\ sent = <<>>
    /\ consumed = <<<<>>, <<>>>>
    /\ panicked = FALSE
    /\ env_log = <<>>

\* Manager::get_channel: a holder of the Sender sends a Register
EnvSendManager ==
    /\ ~panicked
    /\ Len(env_log) < MaxEnv
    /\ Len(mgr_inbox) < InboxCapacity
    /\ \E msg \in ManagerMessages :
          /\ mgr_inbox' = Append(mgr_inbox, msg)
          /\ env_log' = Append(env_log, [to |-> "manager", msg |-> msg])
    /\ UNCHANGED <<twins_dir, broker, mgr_scan, mgr_twins, actors, runners,
                   inboxes, rx_inbox, asset_channels, subscriptions, rx_payload,
                   rx_frame, rx_pending, nframes, sent, consumed, panicked>>
    /\ UNCHANGED <<actorVars, factoryVars, aasVars>>

\* NetworkReceiver::get_channel: a holder of the Sender sends a Register or
\* a Subscribe
EnvSendReceiver ==
    /\ ~panicked
    /\ Len(env_log) < MaxEnv
    /\ Len(rx_inbox) < InboxCapacity
    /\ \E msg \in NetworkMessages :
          /\ rx_inbox' = Append(rx_inbox, msg)
          /\ env_log' = Append(env_log, [to |-> "receiver", msg |-> msg])
    /\ UNCHANGED <<twins_dir, broker, mgr_inbox, mgr_scan, mgr_twins, actors,
                   runners, inboxes, asset_channels, subscriptions, rx_payload,
                   rx_frame, rx_pending, nframes, sent, consumed, panicked>>
    /\ UNCHANGED <<actorVars, factoryVars, aasVars>>

NextTables ==
    \/ EnvSendManager
    \/ EnvSendReceiver
    \/ ManagerRecv
    \/ ReceiverRecv
    \/ ReceiverPoll
    \/ ReceiverSend

SpecTables == InitTables /\ [][NextTables]_vars

\* ------------------------------------------------------------------------
\* Specification: registration while the broker delivers a burst of commands
\* ------------------------------------------------------------------------

\* ./twins of the burst deployment
BurstDirectory ==
    <<TwinFile(ShellA), TwinFile(ShellB), TwinFile(ShellC), TwinFile(ShellD)>>

\* the payloads of the burst: commands for the light bulb
BurstPayloads ==
    { Payload(TRUE, None, WireCommand(Some(LightA), Some("SwitchOn"), Some("{}"))) }

\* the runners of a directory once every one of them has sent its Register
\* to the manager
RECURSIVE spawn_all(_)
spawn_all(dir) ==
    IF dir = <<>> THEN <<>>
    ELSE Append(spawn_all(SubSeq(dir, 1, Len(dir) - 1)),
                [TwinRunner_new(dir[Len(dir)].aas) EXCEPT !.pc = "register_receiver"])

\* the state of the program when initialize_dtwins has spawned a runner per
\* shell, every runner has registered with the manager and the manager has
\* handled the registrations; no runner has reached the receiver yet
InitBurst ==
    /\ ActorNotStarted
    /\ AasNotQueried
    /\ twins_dir = BurstDirectory
    /\ broker = [payloads |-> BurstPayloads, remaining |-> InboxCapacity + 1]
    /\ mgr_inbox = <<>>
    /\ mgr_scan = 0
    /\ mgr_twins = {BurstDirectory[k].aas.id : k \in DOMAIN BurstDirectory}
    /\ actors = [a \in {BurstDirectory[k].aas.id : k \in DOMAIN BurstDirectory} |->
                    CHOOSE k \in DOMAIN BurstDirectory : BurstDirectory[k].aas.id = a]
    /\ runners = spawn_all(BurstDirectory)
    /\ inboxes = [k \in DOMAIN BurstDirectory |-> <<>>]
    /\ rx_inbox = <<>>
    /\ asset_channels = EmptyMap
    /\ subscriptions = EmptyMap
    /\ rx_payload = NoPayload
    /\ rx_frame = NoFrame
    /\ rx_pending = <<>>
    /\ nframes = 0
    /\ sent = <<>>
    /\ consumed = [k \in DOMAIN BurstDirectory |-> <<>>]
    /\ panicked = FALSE
    /\ env_log = <<>>

\* the steps of a runner that has registered with the manager
TwinStep(i) ==
    \/ TwinRegisterReceiver(i)
    \/ TwinSubscribe(i)
    \/ TwinConsume(i)

\* the steps of the receiver task
ReceiverStep == ReceiverRecv \/ ReceiverPoll \/ ReceiverSend

\* tokio runs every task that can make a step
FairScheduling ==
    /\ WF_vars(ReceiverStep)
    /\ \A i \in DOMAIN BurstDirectory : WF_vars(TwinStep(i))

NextBurst ==
    \/ \E i \in DOMAIN runners : TwinStep(i)
    \/ ReceiverStep

SpecBurst == InitBurst /\ [][NextBurst]_vars /\ FairScheduling

\* ------------------------------------------------------------------------
\* Specification: the running program under fair scheduling
\* ------------------------------------------------------------------------

EndToEndDirectory == <<TwinFile(ShellA), TwinFile(ShellB)>>

\* frames of the broker: readings of sensor s1 above and below the light's
\* threshold, a command to the light
EndToEndPayloads ==
    { Payload(TRUE, WireUpdate(Some("s1"), Some(JsonNumber(70))), None),
      Payload(TRUE, WireUpdate(Some("s1"), Some(JsonNumber(30))), None),
      Payload(TRUE, None, WireCommand(Some(LightA), Some("SwitchOff"), Some("{}"))) }

InitEndToEnd == InitDeployment({EndToEndDirectory}, EndToEndPayloads, MaxFrames)

\* the steps of the manager task
ManagerStep == ManagerRecv \/ ManagerScanFile

\* the steps of the task of runner i, once initialize_dtwins has spawned it
RunnerStep(i) ==
    /\ i \in DOMAIN runners
    /\ (TwinRegisterManager(i) \/ TwinStep(i))

\* tokio runs every task that can make a step
FairTasks ==
    /\ WF_vars(ManagerStep)
    /\ WF_vars(ReceiverStep)
    /\ \A i \in DOMAIN EndToEndDirectory : WF_vars(RunnerStep(i))

NextEndToEnd ==
    \/ ManagerStep
    \/ ReceiverStep
    \/ \E i \in DOMAIN runners : RunnerStep(i)

SpecEndToEnd == InitEndToEnd /\ [][NextEndToEnd]_vars /\ FairTasks

\* ------------------------------------------------------------------------
\* Specification: twin init over shells with unresolved slot references
\* ------------------------------------------------------------------------

\* a slot of PowerAndElectrical whose DataSource reference is the string
SlotReference(slot, ref) ==
    Collection(<<slot>>, <<ReferenceElement(<<"DataSource">>, ref)>>)

\* what PowerAndElectrical can hold for a slot: a reference to a sensor under
\* IoTDataSources/Sensors ("power", "current"), no collection for the slot
\* ("missing"), a reference to a collection the shell does not have
\* ("dangling"), a reference without '#' ("malformed"), a reference to a
\* sensor whose SensorID is not a string ("raw"), a reference to a sensor
\* of another submodel ("spare")
SlotEntry(slot, kind) ==
    CASE kind = "power"     -> <<SlotReference(slot, <<"urn:dt:datasources", "SensorPower">>)>>
      [] kind = "current"   -> <<SlotReference(slot, <<"urn:dt:datasources", "SensorCurrent">>)>>
      [] kind = "missing"   -> <<>>
      [] kind = "dangling"  -> <<SlotReference(slot, <<"urn:dt:datasources", "SensorGone">>)>>
      [] kind = "malformed" -> <<SlotReference(slot, <<"urn:dt:datasources">>)>>
      [] kind = "raw"       -> <<SlotReference(slot, <<"urn:dt:datasources", "SensorRaw">>)>>
      [] kind = "spare"     -> <<SlotReference(slot, <<"urn:dt:spare", "SensorSpare">>)>>

SlotKinds == {"power", "current", "missing", "dangling", "malformed", "raw", "spare"}

\* the shell of a charging station: its two slots, the sensors it lists
\* under IoTDataSources/Sensors, and a sensor kept in a third submodel
SlotShell(power_kind, current_kind) ==
    Shell(StationB,
        <<Submodel(<<"urn:dt:power">>, <<"PowerAndElectrical">>,
              SlotEntry("CurrentPowerDraw", power_kind)
                 \o SlotEntry("InputCurrent", current_kind)),
          Submodel(<<"urn:dt:datasources">>, <<"IoTDataSources">>,
              <<Collection(<<"Sensors">>,
                   <<Sensor("SensorPower", "s1"), Sensor("SensorCurrent", "s2"),
                     Collection(<<"SensorRaw">>,
                        <<Property(<<"SensorID">>, IntValue)>>)>>)>>),
          Submodel(<<"urn:dt:spare">>, <<"Spare">>, <<Sensor("SensorSpare", "s3")>>)>>)

SlotShells == {SlotShell(p, c) : p \in SlotKinds \ {"current"}, c \in SlotKinds \ {"raw"}}

\* ./twins holds one of the shells
InitSlots == InitDeployment({<<TwinFile(aas)>> : aas \in SlotShells}, {}, 0)

NextSlots ==
    \/ ManagerRecv
    \/ ManagerScanFile
    \/ \E i \in DOMAIN runners : TwinRegisterManager(i)
    \/ \E i \in DOMAIN runners : TwinRegisterReceiver(i)
    \/ \E i \in DOMAIN runners : TwinSubscribe(i)
    \/ ReceiverRecv

\* tokio runs every task that can make a step
FairInit ==
    /\ WF_vars(ManagerStep)
    /\ WF_vars(ReceiverRecv)
    /\ WF_vars(RunnerStep(1))

SpecSlots == InitSlots /\ [][NextSlots]_vars /\ FairInit

\* ------------------------------------------------------------------------
\* Specification: the runtime fed by the mqtt_sender tool
\* ------------------------------------------------------------------------

\* mqtt_sender, Action::Update: {"update": {"object": object, "value": value}}
SenderUpdate(object, value) ==
    Payload(TRUE, WireUpdate(Some(object), Some(JsonNumber(value))), None)

\* mqtt_sender, Action::Command: {"command": {"command": cmd, "target": target}}
SenderCommand(cmd, target) ==
    Payload(TRUE, None, WireCommand(Some(target), Some(cmd), None))

\* what the tool is run with
SenderPayloads ==
    {SenderUpdate("s1", v) : v \in {30, 70}}
       \cup {SenderCommand(cmd, target) : cmd \in {"SwitchOn", "SwitchOff"},
                                          target \in {LightA, UnknownZ}}

InitSender ==
    InitDeployment({<<TwinFile(ShellA), TwinFile(ShellB)>>}, SenderPayloads, MaxFrames)

SpecSender == InitSender /\ [][NextRuntime]_vars

\* shorthands for the operations of a trace
In(slot, value) == [kind |-> "input_change", name |-> slot, value |-> value, arg |-> "{}"]
Cmd(command) == [kind |-> "execute", name |-> command, value |-> 0, arg |-> "{}"]

\* ------------------------------------------------------------------------
\* Properties
\* ------------------------------------------------------------------------

\* C1: whatever sequence of input_change and execute calls is applied, the
\* parameter fields of the current actor equal those of the actor the
\* sequence started from.
C1_ParametersPreserved == actor.params = initial.params

\* C1 witness: a ChargingStation created with non-default parameters has
\* changed state and still carries them.
C1_Witness ==
    /\ actor.model = "ChargingStation"
    /\ initial.params # default_values("ChargingStation")
    /\ op.kind # "none"
    /\ actor.state # prev.state
    /\ actor.params = initial.params

\* C2: every transition a handler requests to a target state T returns an
\* actor whose state name is T, whose slot and command tables are the ones
\* declared for T and whose parameters are copied unchanged; and every
\* actor value carries the tables declared for its state tag.
C2_TransitionInstallsTarget ==
    /\ actor.dispatch_map = create_dispatch_map(actor.model, actor.state)
    /\ actor.command_map = create_command_map(actor.model, actor.state)
    /\ requested # NoTransition =>
          /\ state(actor) = requested
          /\ actor.dispatch_map = create_dispatch_map(prev.model, requested)
          /\ actor.command_map = create_command_map(prev.model, requested)
          /\ actor.params = prev.params

\* C3: input_change on a slot with no handler in the current state's slot
\* table, and execute on a command with no handler in its command table,
\* return an actor with the same model, state tag and parameters.
C3_UnknownIsIdentity ==
    /\ (op.kind = "input_change" /\ op.name \notin DOMAIN prev.dispatch_map) =>
          /\ actor.model = prev.model
          /\ state(actor) = state(prev)
          /\ actor.params = prev.params
    /\ (op.kind = "execute" /\ op.name \notin DOMAIN prev.command_map) =>
          /\ actor.model = prev.model
          /\ state(actor) = state(prev)
          /\ actor.params = prev.params

\* C3 witness: a ChargingStation in Charging with non-default parameters was
\* given a reading on a slot no state declares and is unchanged.
C3_Witness ==
    /\ op.kind = "input_change"
    /\ op.name = "power"
    /\ prev.model = "ChargingStation"
    /\ state(prev) = "Charging"
    /\ prev.params # default_values("ChargingStation")
    /\ state(actor) = "Charging"

\* C4: for the LightBulb model with threshold t, input_change on slot
\* CurrentPowerDraw with value v returns On when v >= t and Off when v < t,
\* from Off and from On alike; from create_default (t = 0.5) the value 0.3
\* gives Off, 0.7 gives On and a following 0.3 gives Off.
C4_LightBulbPowerChange ==
    /\ (/\ prev.model = "LightBulb"
        /\ op.kind = "input_change"
        /\ op.name = "CurrentPowerDraw") =>
          /\ (op.value >= prev.params.threshold => state(actor) = "On")
          /\ (op.value < prev.params.threshold => state(actor) = "Off")
    /\ create_default("LightBulb").params.threshold = 5
    /\ state(input_change(create_default("LightBulb"), "CurrentPowerDraw", 3)) = "Off"
    /\ state(input_change(create_default("LightBulb"), "CurrentPowerDraw", 7)) = "On"
    /\ state(input_change(input_change(create_default("LightBulb"),
                "CurrentPowerDraw", 7), "CurrentPowerDraw", 3)) = "Off"

\* C4 witness: a LightBulb in Off received a reading equal to its threshold
\* and is On.
C4_Witness ==
    /\ prev.model = "LightBulb"
    /\ state(prev) = "Off"
    /\ op.kind = "input_change"
    /\ op.name = "CurrentPowerDraw"
    /\ op.value = prev.params.threshold
    /\ state(actor) = "On"

\* C5: for a LightBulb created in Off with threshold 0.5, input_change on the
\* slot named "power" with 0.3 leaves it Off, a following 0.7 puts it in On
\* and a further 0.3 puts it in Off again.
C5_PowerSlotFollowsValue ==
    /\ trace = <<In("power", 3)>> => state(actor) = "Off"
    /\ trace = <<In("power", 3), In("power", 7)>> => state(actor) = "On"
    /\ trace = <<In("power", 3), In("power", 7), In("power", 3)>> => state(actor) = "Off"

\* C6: a ChargingStation in Idle goes to Fault on CurrentPowerDraw above
\* max_sleep_power and stays Idle otherwise, goes to Connected on
\* VehicleDetected, and stays Idle on InputCurrent and every other command.
C6_IdleBehaviour ==
    (/\ prev.model = "ChargingStation"
     /\ state(prev) = "Idle"
     /\ op.kind # "none") =>
        state(actor) =
            CASE op.kind = "input_change" /\ op.name = "CurrentPowerDraw" ->
                    IF op.value > prev.params.max_sleep_power THEN "Fault" ELSE "Idle"
              [] op.kind = "execute" /\ op.name = "VehicleDetected" -> "Connected"
              [] OTHER -> "Idle"

\* C6 witness: an Idle station received a power reading equal to
\* max_sleep_power and is still Idle.
C6_Witness ==
    /\ prev.model = "ChargingStation"
    /\ state(prev) = "Idle"
    /\ op.kind = "input_change"
    /\ op.name = "CurrentPowerDraw"
    /\ op.value = prev.params.max_sleep_power
    /\ state(actor) = "Idle"

\* C7: a ChargingStation in Connected goes to Charging on InputCurrent above
\* min_current and stays Connected otherwise, goes to Idle on
\* VehicleDisconnected, and stays Connected on CurrentPowerDraw and every
\* other command.
C7_ConnectedBehaviour ==
    (/\ prev.model = "ChargingStation"
     /\ state(prev) = "Connected"
     /\ op.kind # "none") =>
        state(actor) =
            CASE op.kind = "input_change" /\ op.name = "InputCurrent" ->
                    IF op.value > prev.params.min_current THEN "Charging" ELSE "Connected"
              [] op.kind = "execute" /\ op.name = "VehicleDisconnected" -> "Idle"
              [] OTHER -> "Connected"

\* C7 witness: a Connected station received a current equal to min_current
\* and is still Connected.
C7_Witness ==
    /\ prev.model = "ChargingStation"
    /\ state(prev) = "Connected"
    /\ op.kind = "input_change"
    /\ op.name = "InputCurrent"
    /\ op.value = prev.params.min_current
    /\ state(actor) = "Connected"

\* C8: a ChargingStation in Charging goes to Connected on CurrentPowerDraw
\* below max_sleep_power and stays Charging otherwise, goes to Fault on
\* InputCurrent above max_current and stays Charging otherwise, and stays
\* Charging on SetChargingCurrent; hence create_default, VehicleDetected,
\* InputCurrent 10.0, CurrentPowerDraw 1.0 ends in Connected.
C8_ChargingBehaviour ==
    /\ (/\ prev.model = "ChargingStation"
        /\ state(prev) = "Charging"
        /\ op.kind = "input_change"
        /\ op.name = "CurrentPowerDraw") =>
          state(actor) = IF op.value < prev.params.max_sleep_power
                         THEN "Connected" ELSE "Charging"
    /\ (/\ prev.model = "ChargingStation"
        /\ state(prev) = "Charging"
        /\ op.kind = "input_change"
        /\ op.name = "InputCurrent") =>
          state(actor) = IF op.value > prev.params.max_current
                         THEN "Fault" ELSE "Charging"
    /\ (/\ prev.model = "ChargingStation"
        /\ state(prev) = "Charging"
        /\ op.kind = "execute"
        /\ op.name = "SetChargingCurrent") =>
          state(actor) = "Charging"
    /\ state(input_change(input_change(execute(create_default("ChargingStation"),
                "VehicleDetected", "{}"), "InputCurrent", 100),
                "CurrentPowerDraw", 10)) = "Connected"

\* C8 witness: a Charging station received a power reading equal to
\* max_sleep_power and is still Charging.
C8_Witness ==
    /\ prev.model = "ChargingStation"
    /\ state(prev) = "Charging"
    /\ op.kind = "input_change"
    /\ op.name = "CurrentPowerDraw"
    /\ op.value = prev.params.max_sleep_power
    /\ state(actor) = "Charging"

\* C9: a ChargingStation in Fault goes to Idle on Reset and stays in Fault on
\* every input_change and every other command, so Fault is left only by a
\* Reset command and the state that follows is Idle.
C9_FaultLeftOnlyByReset ==
    (/\ prev.model = "ChargingStation"
     /\ state(prev) = "Fault"
     /\ op.kind # "none") =>
        IF op.kind = "execute" /\ op.name = "Reset"
        THEN state(actor) = "Idle"
        ELSE state(actor) = "Fault"

\* C9 witness: a station in Fault executed Reset and is Idle.
C9_Witness ==
    /\ prev.model = "ChargingStation"
    /\ state(prev) = "Fault"
    /\ op.kind = "execute"
    /\ op.name = "Reset"
    /\ state(actor) = "Idle"

\* the charging-complete scenario: VehicleDetected, InputCurrent 10.0,
\* CurrentPowerDraw 1.0
ChargingComplete ==
    <<Cmd("VehicleDetected"), In("InputCurrent", 100), In("CurrentPowerDraw", 10)>>

\* C10: from a default ChargingStation, VehicleDetected, InputCurrent 10.0,
\* CurrentPowerDraw 1.0 ends in Connected; a further InputCurrent 20.0 puts
\* the actor in Fault and a following Reset puts it in Idle.
C10_OvercurrentThenReset ==
    (initial = create_default("ChargingStation")) =>
        /\ trace = ChargingComplete => state(actor) = "Connected"
        /\ trace = ChargingComplete \o <<In("InputCurrent", 200)>> =>
              state(actor) = "Fault"
        /\ trace = ChargingComplete \o <<In("InputCurrent", 200), Cmd("Reset")>> =>
              state(actor) = "Idle"

\* C10 as amended: after VehicleDetected, InputCurrent 10.0, CurrentPowerDraw
\* 1.0 the station is Connected, so a further InputCurrent 20.0 puts it in
\* Charging and a following Reset leaves it in Charging; InputCurrent 20.0
\* leads to Fault, and Reset from there to Idle, when it is applied in
\* Charging, that is right after VehicleDetected, InputCurrent 10.0.
C10_Amended ==
    (initial = create_default("ChargingStation")) =>
        /\ trace = ChargingComplete => state(actor) = "Connected"
        /\ trace = ChargingComplete \o <<In("InputCurrent", 200)>> =>
              state(actor) = "Charging"
        /\ trace = ChargingComplete \o <<In("InputCurrent", 200), Cmd("Reset")>> =>
              state(actor) = "Charging"
        /\ trace = <<Cmd("VehicleDetected"), In("InputCurrent", 100),
                     In("InputCurrent", 200)>> =>
              state(actor) = "Fault"
        /\ trace = <<Cmd("VehicleDetected"), In("InputCurrent", 100),
                     In("InputCurrent", 200), Cmd("Reset")>> =>
              state(actor) = "Idle"

\* C10 witness: the whole scenario has been applied and the station is
\* Charging.
C10_Witness ==
    /\ initial = create_default("ChargingStation")
    /\ trace = ChargingComplete \o <<In("InputCurrent", 200), Cmd("Reset")>>
    /\ state(prev) = "Charging"
    /\ state(actor) = "Charging"

\* observational equality of two actor values: same model, same state tag,
\* same parameters
ObsEqual(a, b) ==
    /\ a.model = b.model
    /\ state(a) = state(b)
    /\ a.params = b.params

\* C12: applying input_change(k, v) a second time to the actor that
\* input_change(k, v) returned gives an actor observationally equal to it.
C12_InputChangeIdempotent ==
    op.kind = "input_change" =>
        ObsEqual(input_change(actor, op.name, op.value), actor)

\* the one case in which a repeated reading moves the actor again: a
\* Connected ChargingStation given an InputCurrent above both min_current
\* and max_current
OvercurrentWhileConnected ==
    /\ prev.model = "ChargingStation"
    /\ state(prev) = "Connected"
    /\ op.kind = "input_change"
    /\ op.name = "InputCurrent"
    /\ op.value > prev.params.min_current
    /\ op.value > prev.params.max_current

\* C12 as amended: a second input_change(k, v) returns an actor
\* observationally equal to the first result, except for a ChargingStation
\* in Connected with k = InputCurrent and v above both min_current and
\* max_current, where the first call gives Charging and the second Fault
\* (parameters unchanged).
C12_Amended ==
    op.kind = "input_change" =>
        LET again == input_change(actor, op.name, op.value)
        IN IF OvercurrentWhileConnected
           THEN /\ state(actor) = "Charging"
                /\ state(again) = "Fault"
                /\ again.params = actor.params
           ELSE ObsEqual(again, actor)

\* C12 witness: a LightBulb in Off was switched On by a reading, and the
\* same reading applied again leaves it On.
C12_Witness ==
    /\ prev.model = "LightBulb"
    /\ state(prev) = "Off"
    /\ op.kind = "input_change"
    /\ op.name = "CurrentPowerDraw"
    /\ state(actor) = "On"
    /\ state(input_change(actor, op.name, op.value)) = "On"

\* the elements of a slot list
Range(seq) == {seq[i] : i \in DOMAIN seq}

\* C13: the slot list a factory returns is the union of the slot names that
\* have a handler in some state of the model.
C13_SlotListIsUnion ==
    factory_out # NoFactoryCall =>
        Range(factory_out.slots) =
            UNION {DOMAIN create_dispatch_map(factory_in.model, s) :
                       s \in StatesOf(factory_in.model)}

\* C13 witness: the ChargingStation factory returned CurrentPowerDraw and
\* InputCurrent, the second of which the default state does not handle.
C13_Witness ==
    /\ factory_out # NoFactoryCall
    /\ factory_in.model = "ChargingStation"
    /\ Range(factory_out.slots) = {"CurrentPowerDraw", "InputCurrent"}
    /\ "InputCurrent" \notin DOMAIN factory_out.actor.dispatch_map

\* the keys of the parameter value that hold a JSON number under the name
\* of a declared parameter
UsableKeys(m, params) ==
    IF params.t = "object"
    THEN {k \in DOMAIN params.fields \cap DOMAIN default_values(m) :
             params.fields[k].t = "number"}
    ELSE {}

\* the parameter object without the keys that name no parameter
KnownKeysOnly(m, params) ==
    IF params.t = "object"
    THEN JsonObject([k \in DOMAIN params.fields \cap DOMAIN default_values(m) |->
                        params.fields[k]])
    ELSE params

\* C14: create_with_params(p) returns an actor in the declared initial state
\* in which each declared parameter is p[name] (converted to f32) when p is
\* an object holding a JSON number under that name, and the declared default
\* otherwise; keys that name no parameter have no effect, and with no
\* usable key the result is that of create_default.
C14_CreateWithParams ==
    factory_out.call = "create_with_params" =>
        LET m == factory_in.model
            p == factory_in.params
        IN /\ factory_out.actor.model = m
           /\ state(factory_out.actor) = default_state(m)
           /\ \A name \in DOMAIN default_values(m) :
                 factory_out.actor.params[name] =
                     IF name \in UsableKeys(m, p)
                     THEN as_f32(p.fields[name].n)
                     ELSE default_values(m)[name]
           /\ factory_out = create_with_params(m, KnownKeysOnly(m, p))
           /\ UsableKeys(m, p) = {} =>
                 /\ factory_out.actor = create_default(m)
                 /\ factory_out.slots = Factory_create_default(m).slots

\* C14 witness: a ChargingStation was created from an object that gives
\* max_current as a number, min_current as a string and a key that names no
\* parameter; max_current is taken, the others are the defaults.
C14_Witness ==
    /\ factory_out.call = "create_with_params"
    /\ factory_in.model = "ChargingStation"
    /\ factory_in.params.t = "object"
    /\ DOMAIN factory_in.params.fields = {"max_current", "min_current", "colour"}
    /\ factory_in.params.fields["max_current"] = JsonNumber(800)
    /\ factory_in.params.fields["min_current"] = JsonString
    /\ factory_out.actor.params =
          [min_current |-> default_min_current, max_current |-> 80,
           max_sleep_power |-> default_max_sleep_power]

\* ------------------------------------------------------------------------
\* Routing by the network receiver
\* ------------------------------------------------------------------------

\* the sends of kind k the receiver completed for the payload numbered n
SentFor(log, n, k) == SelectSeq(log, LAMBDA e : e.frame = n /\ e.msg.kind = k)

\* a step that ends the handling of a payload: a poll that calls for no
\* send, or the last send of the payload
FrameDone ==
    /\ rx_pending' = <<>>
    /\ nframes' # nframes \/ rx_pending # <<>>

\* the InputChange sends an update calls for under the given tables, one per
\* subscriber entry with a registered inbox
RECURSIVE ExpectedUpdateSends(_, _, _, _)
ExpectedUpdateSends(subscribers, chans, n, update) ==
    IF subscribers = <<>> THEN <<>>
    ELSE LET rest == ExpectedUpdateSends(Tail(subscribers), chans, n, update)
         IN IF Head(subscribers) \in DOMAIN chans
            THEN <<[frame |-> n, ch |-> chans[Head(subscribers)],
                    msg |-> InputChangeMsg(update.object, update.value)]>> \o rest
            ELSE rest

SubscribersOf(subs, d) == IF d \in DOMAIN subs THEN subs[d] ELSE <<>>

\* C15: on a decoded update for DeviceID d with value v the receiver
\* enqueues InputChange(d, v) once per entry of d's subscriber list whose
\* AssetID has a registered inbox, on that inbox, and no InputChange anywhere
\* else; with no subscribers no inbox send occurs
C15_UpdateRouting ==
    [][FrameDone =>
         SentFor(sent', nframes', "InputChange") =
            IF rx_frame'.ok /\ rx_frame'.update # None
            THEN ExpectedUpdateSends(
                    SubscribersOf(subscriptions', rx_frame'.update[1].object),
                    asset_channels', nframes', rx_frame'.update[1])
            ELSE <<>>]_vars

\* an update for a device with two subscribers has been routed to both
C15_Witness ==
    /\ rx_frame.ok
    /\ rx_frame.update # None
    /\ rx_pending = <<>>
    /\ Len(SubscribersOf(subscriptions, rx_frame.update[1].object)) = 2
    /\ Len(SentFor(sent, nframes, "InputChange")) = 2

\* C16: on a decoded command with target a, exactly one Command(name, args)
\* is enqueued, on a's inbox, when a is registered; when a is not registered
\* nothing is enqueued for the command, so no inbox and no actor changes
C16_CommandRouting ==
    [][FrameDone =>
         SentFor(sent', nframes', "Command") =
            IF rx_frame'.ok /\ rx_frame'.command # None
               /\ rx_frame'.command[1].target \in DOMAIN asset_channels'
            THEN <<[frame |-> nframes',
                    ch |-> asset_channels'[rx_frame'.command[1].target],
                    msg |-> CommandMsg(rx_frame'.command[1].command,
                                       rx_frame'.command[1].args)]>>
            ELSE <<>>]_vars

\* a command for a registered twin has been enqueued while another twin is
\* registered too
C16_Witness ==
    /\ rx_frame.ok
    /\ rx_frame.command # None
    /\ rx_pending = <<>>
    /\ rx_frame.command[1].target \in DOMAIN asset_channels
    /\ Cardinality(DOMAIN asset_channels) = 2
    /\ Len(SentFor(sent, nframes, "Command")) = 1

\* a payload that is no wire message
Malformed(p) ==
    \/ ~p.json
    \/ p.update # None /\ ~Update_decodes(p.update[1])
    \/ p.command # None /\ ~Command_decodes(p.command[1])

\* C17: a payload that fails to decode causes no inbox send and no change
\* of the receiver's tables, even when its other member is well-formed, and
\* leaves the receiver ready for the next payload
C17_MalformedDropped ==
    [][(nframes' # nframes /\ Malformed(rx_payload')) =>
         /\ rx_pending' = <<>>
         /\ sent' = sent
         /\ inboxes' = inboxes
         /\ asset_channels' = asset_channels
         /\ subscriptions' = subscriptions]_vars

\* a payload with an ill-formed update and a well-formed command for a
\* registered twin has been polled
C17_Witness ==
    /\ nframes > 0
    /\ Malformed(rx_payload)
    /\ rx_payload.command # None
    /\ Command_decodes(rx_payload.command[1])
    /\ rx_payload.command[1].target[1] \in DOMAIN asset_channels
    /\ SentFor(sent, nframes, "Command") = <<>>

\* C18: every AssetID in a subscriber list of the subscription table has an
\* entry in the AssetID-to-inbox table
C18_SubscribersRegistered ==
    \A d \in DOMAIN subscriptions :
        \A k \in 1..Len(subscriptions[d]) :
            subscriptions[d][k] \in DOMAIN asset_channels

\* two twins have subscribed to the same device
C18_Witness ==
    \E d \in DOMAIN subscriptions : Len(subscriptions[d]) = 2

\* ------------------------------------------------------------------------
\* Order of application per twin
\* ------------------------------------------------------------------------

\* the messages the receiver enqueued on inbox i, in order
RoutedTo(i) ==
    LET mine == SelectSeq(sent, LAMBDA e : e.ch = i)
    IN [k \in 1..Len(mine) |-> mine[k].msg]

\* the left fold of body_step over a sequence of messages
RECURSIVE FoldMessages(_, _)
FoldMessages(twin, msgs) ==
    IF msgs = <<>> THEN twin.inner_state
    ELSE FoldMessages([twin EXCEPT !.inner_state = body_step(twin, Head(msgs))],
                      Tail(msgs))

\* C20: per twin the messages are applied in the order they were enqueued,
\* one at a time: what was enqueued is what was applied followed by what
\* waits, and the actor is the left fold of the applied messages
C20_AppliedInEnqueueOrder ==
    \A i \in DOMAIN runners :
        /\ RoutedTo(i) = consumed[i] \o inboxes[i]
        /\ runners[i].inner_state =
              FoldMessages([runners[i] EXCEPT
                               !.inner_state = TwinRunner_new(runners[i].aas).inner_state],
                           consumed[i])

\* a twin has applied two different updates of one device and one is waiting
\* or applied after them
C20_Witness ==
    \E i \in DOMAIN runners :
        /\ Len(consumed[i]) >= 2
        /\ consumed[i][1].kind = "InputChange"
        /\ consumed[i][2].kind = "InputChange"
        /\ consumed[i][1].name = consumed[i][2].name
        /\ consumed[i][1].value # consumed[i][2].value
        /\ Len(RoutedTo(i)) >= 3

\* ------------------------------------------------------------------------
\* Registration
\* ------------------------------------------------------------------------

\* a runner with this AssetID has been spawned
Spawned(a) == \E i \in DOMAIN runners : runners[i].aas.id = a

\* the manager and the receiver both map the AssetID to its runner's inbox
Registered(a) ==
    /\ a \in DOMAIN actors
    /\ a \in DOMAIN asset_channels
    /\ \E i \in DOMAIN runners :
          /\ runners[i].aas.id = a
          /\ actors[a] = i
          /\ asset_channels[a] = i

\* C19: under fair scheduling every spawned runner is eventually entered in
\* the manager's registry and in the receiver's AssetID-to-inbox table, with
\* its own inbox, and the entries stay, whatever payloads arrive meanwhile
\* (a spawned runner stays spawned, so "always, spawned leads to registered
\* for good" is "eventually for good, spawned implies registered")
C19_RegistrationSettles ==
    <>[](\A a \in {LightA, StationB, StationC, EvD} : Spawned(a) => Registered(a))

\* ------------------------------------------------------------------------
\* Bootstrap
\* ------------------------------------------------------------------------

\* the entry holds a shell the scan gets to read
Readable(entry) == entry.yaml /\ entry.opens /\ entry.parses

\* a step of the scan over the entry at mgr_scan
ScanStep ==
    /\ mgr_scan \in 1..Len(twins_dir)
    /\ mgr_scan' # mgr_scan \/ panicked' # panicked

\* the scan goes on with the entry after the current one
ScanContinues ==
    /\ ~panicked'
    /\ mgr_scan' = IF mgr_scan = Len(twins_dir) THEN 0 ELSE mgr_scan + 1

\* no two runners have the same AssetID
UniqueRunners(rs) ==
    \A i, j \in DOMAIN rs : rs[i].aas.id = rs[j].aas.id => i = j

\* C23: at most one runner is ever spawned per AssetID: a shell whose
\* AssetID was already accepted is rejected, no runner is spawned for it,
\* and the scan continues with the remaining entries
C23_DuplicateRejected ==
    [][/\ UniqueRunners(runners')
       /\ (/\ ScanStep
           /\ Readable(twins_dir[mgr_scan])
           /\ Spawned(twins_dir[mgr_scan].aas.id))
          => (runners' = runners /\ ScanContinues)]_vars

\* the second description of the light bulb was rejected and the station
\* after it was spawned
C23_Witness ==
    /\ Len(twins_dir) = 3
    /\ twins_dir[2].aas.id = twins_dir[1].aas.id
    /\ mgr_scan = 0
    /\ Len(runners) = 2
    /\ runners[1].aas = twins_dir[1].aas
    /\ runners[2].aas = twins_dir[3].aas

\* the scan of the directory has ended
ScanOver ==
    /\ mgr_scan = 0
    /\ \A k \in DOMAIN mgr_inbox : mgr_inbox[k].type # "Initialize"

\* C24: a shell file that fails to parse is skipped and bootstrap
\* continues: once the scan is over, every readable entry (of a directory
\* all of whose shells can be constructed) has a runner for its AssetID,
\* wherever the unparseable entry falls in the scan order
C24_ParseFailureSkipped ==
    (/\ ScanOver
     /\ \A k \in DOMAIN twins_dir : constructible(twins_dir[k].aas.id))
    => \A k \in DOMAIN twins_dir :
          Readable(twins_dir[k]) => Spawned(twins_dir[k].aas.id)

\* C25: a shell whose asset kind is not recognized, or whose AssetID has
\* fewer than four segments, fails only that twin's construction: no runner
\* is spawned for it, the manager goes on with the remaining entries and
\* keeps running
C25_UnknownKindDropped ==
    [][(/\ ScanStep
        /\ Readable(twins_dir[mgr_scan])
        /\ ~constructible(twins_dir[mgr_scan].aas.id))
       => (runners' = runners /\ ScanContinues)]_vars

\* ------------------------------------------------------------------------
\* The tables of the receiver and the manager
\* ------------------------------------------------------------------------

\* the messages sent to a component ("manager" or "receiver"), in order
SentTo(log, to) ==
    LET mine == SelectSeq(log, LAMBDA e : e.to = to)
    IN [k \in 1..Len(mine) |-> mine[k].msg]

\* the messages a component has handled: those sent to it that no longer
\* wait in its channel
HandledOf(log, to, inbox) ==
    SubSeq(SentTo(log, to), 1, Len(SentTo(log, to)) - Len(inbox))

\* number of occurrences of x in a sequence
Count(seq, x) == Cardinality({k \in DOMAIN seq : seq[k] = x})

\* how often the handled Subscribe messages appended a to the list of d
RECURSIVE AppendedTimes(_, _, _)
AppendedTimes(handled, a, d) ==
    IF handled = <<>> THEN 0
    ELSE AppendedTimes(Tail(handled), a, d) +
         (IF Head(handled).type = "Subscribe" /\ Head(handled).src = a
          THEN Count(Head(handled).oids, d) ELSE 0)

\* a step in which the receiver handles the message at the head of its
\* channel
ReceiverHandles(type) ==
    /\ rx_inbox # <<>>
    /\ rx_inbox' = Tail(rx_inbox)
    /\ Head(rx_inbox).type = type

\* C21: subscriptions are additive without deduplication: Subscribe(a, ds)
\* appends a to the list of every DeviceID of ds, once per occurrence in ds
\* and creating the list if new, and leaves the other lists alone; an
\* update for d then enqueues on every inbox as many InputChange messages
\* as the assets registered with that inbox were appended to d's list
C21_SubscriptionsAdditive ==
    [][/\ ReceiverHandles("Subscribe") =>
            LET msg == Head(rx_inbox)
            IN /\ DOMAIN subscriptions' = DOMAIN subscriptions \cup Range(msg.oids)
               /\ \A d \in DOMAIN subscriptions' :
                     subscriptions'[d] =
                        SubscribersOf(subscriptions, d) \o
                           [k \in 1..Count(msg.oids, d) |-> msg.src]
       /\ (FrameDone /\ rx_frame'.ok /\ rx_frame'.update # None) =>
            \A i \in DOMAIN inboxes :
               Len(SelectSeq(SentFor(sent', nframes', "InputChange"),
                             LAMBDA e : e.ch = i)) =
                  LET regs == {a \in DOMAIN asset_channels' : asset_channels'[a] = i}
                      Sum[S \in SUBSET regs] ==
                          IF S = {} THEN 0
                          ELSE LET a == CHOOSE x \in S : TRUE
                               IN AppendedTimes(HandledOf(env_log', "receiver", rx_inbox'),
                                                a, rx_frame'.update[1].object)
                                    + Sum[S \ {a}]
                  IN Sum[regs]]_vars

\* an update was routed twice to the inbox of an asset that one Subscribe
\* listing the device twice, or two Subscribes, entered twice
C21_Witness ==
    /\ rx_frame.ok
    /\ rx_frame.update # None
    /\ rx_pending = <<>>
    /\ LightA \in DOMAIN asset_channels
    /\ Count(SubscribersOf(subscriptions, rx_frame.update[1].object), LightA) = 2
    /\ Len(SelectSeq(SentFor(sent, nframes, "InputChange"),
                     LAMBDA e : e.ch = asset_channels[LightA])) = 2

\* the inbox of the last Register for a among the handled messages
RECURSIVE LastRegistered(_, _)
LastRegistered(handled, a) ==
    IF handled = <<>> THEN None
    ELSE LET last == handled[Len(handled)]
         IN IF last.type = "Register" /\ last.src = a THEN Some(last.ch)
            ELSE LastRegistered(SubSeq(handled, 1, Len(handled) - 1), a)

\* C22: Register(a, inbox) inserts the entry for a or overwrites it, on the
\* receiver and on the manager: the table then maps a to that inbox and its
\* other entries are unchanged; a later command for a goes to the inbox of
\* the most recent Register only
C22_RegisterOverwrites ==
    [][/\ ReceiverHandles("Register") =>
            LET msg == Head(rx_inbox)
            IN /\ DOMAIN asset_channels' = DOMAIN asset_channels \cup {msg.src}
               /\ asset_channels'[msg.src] = msg.ch
               /\ \A a \in DOMAIN asset_channels \ {msg.src} :
                     asset_channels'[a] = asset_channels[a]
               /\ subscriptions' = subscriptions
       /\ (/\ mgr_inbox # <<>>
           /\ mgr_inbox' = Tail(mgr_inbox)
           /\ Head(mgr_inbox).type = "Register") =>
            LET msg == Head(mgr_inbox)
            IN /\ DOMAIN actors' = DOMAIN actors \cup {msg.id}
               /\ actors'[msg.id] = msg.ch
               /\ \A a \in DOMAIN actors \ {msg.id} : actors'[a] = actors[a]
       /\ (FrameDone /\ rx_frame'.ok /\ rx_frame'.command # None) =>
            LET target == rx_frame'.command[1].target
                inbox == LastRegistered(HandledOf(env_log', "receiver", rx_inbox'), target)
            IN IF inbox = None
               THEN SentFor(sent', nframes', "Command") = <<>>
               ELSE /\ Len(SentFor(sent', nframes', "Command")) = 1
                    /\ SentFor(sent', nframes', "Command")[1].ch = inbox[1]]_vars

\* a command went to the inbox of the second Register for the light bulb,
\* which replaced the first in both tables
C22_Witness ==
    /\ rx_frame.ok
    /\ rx_frame.command # None
    /\ rx_pending = <<>>
    /\ Count(HandledOf(env_log, "receiver", rx_inbox), NetworkRegister(LightA, 1)) = 1
    /\ LastRegistered(HandledOf(env_log, "receiver", rx_inbox), LightA) = Some(2)
    /\ asset_channels[LightA] = 2
    /\ Len(SentFor(sent, nframes, "Command")) = 1
    /\ SentFor(sent, nframes, "Command")[1].ch = 2

\* ------------------------------------------------------------------------
\* The twin runner
\* ------------------------------------------------------------------------

\* positions of the runner's Register in the manager's channel
InManagerChannel(a) ==
    {k \in DOMAIN mgr_inbox : mgr_inbox[k].type = "Register" /\ mgr_inbox[k].id = a}

\* positions of the runner's messages of a type in the receiver's channel
InReceiverChannel(a, type) ==
    {k \in DOMAIN rx_inbox : rx_inbox[k].type = type /\ rx_inbox[k].src = a}

\* the asset is on some subscriber list
Subscribed(a) ==
    \E d \in DOMAIN subscriptions : \E k \in DOMAIN subscriptions[d] : subscriptions[d][k] = a

\* how many times a message was sent, given where it waits and whether it
\* was handled
TimesSent(waiting, handled) == Cardinality(waiting) + (IF handled THEN 1 ELSE 0)

\* C28: a runner takes no message from its inbox before its init is over,
\* and init sends Register to the manager, then Register to the receiver,
\* then, with the slot map built and only if the shell lists sensors, one
\* Subscribe to the receiver; the receiver handles a runner's Register
\* before its Subscribe
C28_InitOrder ==
    \A i \in DOMAIN runners :
        LET a == runners[i].aas.id
            pc == runners[i].pc
            to_manager == TimesSent(InManagerChannel(a), a \in DOMAIN actors)
            registers == TimesSent(InReceiverChannel(a, "Register"),
                                   a \in DOMAIN asset_channels)
            subscribes == TimesSent(InReceiverChannel(a, "Subscribe"), Subscribed(a))
        IN /\ consumed[i] # <<>> => pc = "run"
           /\ to_manager = (IF pc = "register_manager" THEN 0 ELSE 1)
           /\ registers = (IF pc \in {"register_manager", "register_receiver"} THEN 0 ELSE 1)
           /\ subscribes = (IF pc = "run" /\ sensor_ids(runners[i].aas) # <<>> THEN 1 ELSE 0)
           /\ runners[i].slot_map =
                 (IF pc \in {"register_manager", "register_receiver"} THEN EmptyMap
                  ELSE build_slot_map(runners[i].aas, runners[i].slots, EmptyMap))
           /\ \A k \in InReceiverChannel(a, "Subscribe") :
                 /\ rx_inbox[k].oids = sensor_ids(runners[i].aas)
                 /\ \/ a \in DOMAIN asset_channels
                    \/ \E j \in InReceiverChannel(a, "Register") : j < k
           /\ Subscribed(a) => a \in DOMAIN asset_channels

\* a runner has finished init, is subscribed, and has taken a message that
\* the receiver routed to it out of the first frame
C28_Witness ==
    \E i \in DOMAIN runners :
        /\ runners[i].pc = "run"
        /\ Subscribed(runners[i].aas.id)
        /\ consumed[i] # <<>>
        /\ \E k \in DOMAIN sent :
              /\ sent[k].ch = i
              /\ sent[k].frame = 1
        /\ nframes = 2
        /\ rx_inbox = <<>>

\* a step in which runner i takes msg from its inbox
Takes(i, msg) ==
    /\ i \in DOMAIN consumed
    /\ consumed'[i] = Append(consumed[i], msg)

\* C29: InputChange(d, v) taken from the inbox replaces the actor by
\* input_change(slot_map[d], v) when d is in the slot map and is dropped
\* otherwise, leaving the actor's state tag and parameters as they were;
\* Command(name, args) replaces the actor by execute(name, args); the slot
\* map does not change once init is over
C29_MessageApplied ==
    [][\A i \in DOMAIN runners :
          /\ runners[i].pc = "run" => runners'[i].slot_map = runners[i].slot_map
          /\ \A msg \in {inboxes[i][k] : k \in DOMAIN inboxes[i]} :
                Takes(i, msg) =>
                   LET twin == runners[i]
                   IN IF msg.kind = "Command"
                      THEN runners'[i].inner_state =
                              execute(twin.inner_state, msg.name, msg.arg)
                      ELSE IF msg.name \in DOMAIN twin.slot_map
                      THEN runners'[i].inner_state =
                              input_change(twin.inner_state, twin.slot_map[msg.name],
                                           msg.value)
                      ELSE /\ state(runners'[i].inner_state) = state(twin.inner_state)
                           /\ runners'[i].inner_state.params = twin.inner_state.params]_vars

\* a runner took an update of a device that is not in its slot map, after
\* an update of a device that is
C29_Witness ==
    \E i \in DOMAIN runners :
        /\ Len(consumed[i]) = 2
        /\ consumed[i][1].kind = "InputChange"
        /\ consumed[i][1].name \in DOMAIN runners[i].slot_map
        /\ consumed[i][2].kind = "InputChange"
        /\ consumed[i][2].name \notin DOMAIN runners[i].slot_map
        /\ state(runners[i].inner_state) = "On"

\* ------------------------------------------------------------------------
\* The AAS query layer on loaded shells
\* ------------------------------------------------------------------------

MaxSubmodels == 2

SensorID(value) == Property(<<"SensorID">>, value)

\* the lists of elements of a submodel: the layout of the tests; a
\* collection whose first SensorID is not a string; two collections of one
\* short name; properties and a second Sensors collection at top level; a
\* short name that contains '#'
ElementLists ==
    { <<Collection(<<"Sensors">>,
          <<Collection(<<"SensorPower">>,
               <<SensorID(StrValue("s1")), Property(<<"Unit">>, StrValue("W"))>>),
            Collection(<<"SensorAux">>,
               <<Event(<<"OnChange">>), SensorID(StrValue("s2"))>>)>>)>>,
      <<Collection(<<"Sensors">>,
          <<Collection(<<"SensorPower">>,
               <<SensorID(IntValue), SensorID(StrValue("s1"))>>)>>)>>,
      <<Collection(<<"Sensors">>,
          <<Collection(<<"SensorPower">>, <<Property(<<"Unit">>, StrValue("W"))>>),
            Collection(<<"SensorPower">>, <<SensorID(StrValue("s2"))>>)>>)>>,
      <<SensorID(StrValue("s3")),
        Collection(<<"Other">>, <<SensorID(StrValue("s2"))>>),
        Collection(<<"Sensors">>,
          <<SensorID(StrValue("s1")),
            Collection(<<"SensorPower">>,
               <<ReferenceElement(<<"SensorID">>, <<"urn:dt:datasources", "SensorAux">>),
                 SensorID(StrValue("s2"))>>),
            SensorID(StrValue("s3"))>>),
        Collection(<<"Sensors">>, <<SensorID(StrValue("s4"))>>)>>,
      <<Collection(<<"Sensor", "Power">>, <<SensorID(StrValue("s1"))>>)>> }

\* the id and the short name of a submodel; one id is "sm#x", and two
\* submodels share a short name
SubmodelHeads ==
    { [id |-> <<"sm1">>, id_short |-> <<"IoTDataSources">>],
      [id |-> <<"sm2">>, id_short |-> <<"Other">>],
      [id |-> <<"sm", "x">>, id_short |-> <<"IoTDataSources">>] }

SubmodelShorts == {h.id_short : h \in SubmodelHeads}

Submodels ==
    {Submodel(h.id, h.id_short, elements) :
        h \in SubmodelHeads, elements \in ElementLists}

\* the shells from_reader returns for the files
LoadedShells ==
    {Shell(LightA, sms) : sms \in UNION {[1..n -> Submodels] : n \in 1..MaxSubmodels}}

\* the elements of a tree that are collections, at any depth, in depth-first
\* pre-order document order
RECURSIVE collections_of(_)
collections_of(elements) ==
    IF elements = <<>> THEN <<>>
    ELSE (IF Head(elements).element_type = "collection"
          THEN <<Head(elements)>> \o collections_of(Head(elements).elements)
          ELSE <<>>) \o collections_of(Tail(elements))

\* the elements of a tree that are not collections, in the same order
RECURSIVE leaves_of(_)
leaves_of(elements) ==
    IF elements = <<>> THEN <<>>
    ELSE (IF Head(elements).element_type = "collection"
          THEN leaves_of(Head(elements).elements)
          ELSE <<Head(elements)>>) \o leaves_of(Tail(elements))

\* references to ask for: one per submodel id and collection short name of
\* the shell, and strings with no '#', with two, and with an unknown id
References(aas) ==
    UNION {{m.id \o c.id_short : c \in Range(collections_of(m.elements))} :
              m \in Range(aas.submodels)}
    \cup {<<"sm1">>, <<"sm1", "SensorPower", "SensorID">>, <<"sm3", "SensorPower">>}

ShortNames == {<<"Sensors">>, <<"SensorPower">>, <<"Missing">>}

Targets == {<<"SensorID">>, <<"Unit">>}

\* AssetAdministrationShell::from_reader on one of the files
InitAas ==
    /\ ActorNotStarted
    /\ RuntimeNotStarted
    /\ aas_query \in {[fn |-> "from_reader", aas |-> aas] : aas \in LoadedShells}
    /\ aas_result = NoQuery

\* a call of resolve_sensor_reference on the loaded shell
Resolve ==
    \E full_ref \in References(aas_query.aas) :
        /\ aas_query' = [fn |-> "resolve_sensor_reference", aas |-> aas_query.aas,
                         full_ref |-> full_ref]
        /\ aas_result' = resolve_sensor_reference(aas_query.aas, full_ref)
        /\ UNCHANGED <<actorVars, factoryVars, runtimeVars>>

\* a call of find_elements_in_collection on the loaded shell
FindElements ==
    \E submodel \in SubmodelShorts \cup {<<"Missing">>}, collection \in ShortNames,
       target \in Targets :
        /\ aas_query' = [fn |-> "find_elements_in_collection", aas |-> aas_query.aas,
                         submodel |-> submodel, collection |-> collection,
                         target |-> target]
        /\ aas_result' = find_elements_in_collection(aas_query.aas, submodel,
                                                     collection, target)
        /\ UNCHANGED <<actorVars, factoryVars, runtimeVars>>

NextAas == Resolve \/ FindElements

SpecAas == InitAas /\ [][NextAas]_vars

\* ------------------------------------------------------------------------
\* The AAS queries
\* ------------------------------------------------------------------------

Resolved == aas_query.fn = "resolve_sensor_reference"

\* the collection is of that short name and holds a string SensorID of
\* that value
HoldsSensorID(c, e, v) ==
    /\ c.id_short = e
    /\ \E p \in Range(c.elements) :
          /\ p.element_type = "property"
          /\ p.id_short = <<"SensorID">>
          /\ p.value = StrValue(v)

SensorValues == {"s1", "s2", "s3", "s4"}

\* C26 as stated: for every submodel id i of the shell and every collection
\* short name e present in that submodel whose collection holds a string
\* SensorID property, resolve_sensor_reference(i + "#" + e) returns that
\* SensorID; a reference that does not contain exactly one '#' returns none
C26_ResolveRoundTrip ==
    Resolved =>
        /\ Len(aas_query.full_ref) # 2 => aas_result = None
        /\ \A m \in Range(aas_query.aas.submodels) :
              \A c \in Range(collections_of(m.elements)) :
                 \A v \in SensorValues :
                    /\ HoldsSensorID(c, c.id_short, v)
                    /\ aas_query.full_ref = m.id \o c.id_short
                    => aas_result = Some(v)

\* the first element of a list that satisfies the test, if any
First(seq, Test(_)) ==
    LET hits == SelectSeq(seq, Test)
    IN IF hits = <<>> THEN None ELSE Some(hits[1])

\* what the reference i + "#" + e names: the first SensorID property of the
\* first collection of short name e, in depth-first pre-order, of the first
\* submodel of id i, when its value is a string
Named(aas, i, e) ==
    LET m == First(aas.submodels, LAMBDA x : x.id = i)
        c == IF m = None THEN None
             ELSE First(collections_of(m[1].elements), LAMBDA x : x.id_short = e)
        p == IF c = None THEN None
             ELSE First(c[1].elements,
                        LAMBDA x : /\ x.element_type = "property"
                                   /\ x.id_short = <<"SensorID">>)
    IN IF p # None /\ p[1].value.t = "Str" THEN Some(p[1].value.s) ELSE None

\* C26 amended: for a submodel id i and a short name e that contain no '#',
\* resolve_sensor_reference(i + "#" + e) returns the string value of the
\* first SensorID property of the first collection named e (depth-first
\* pre-order) of the first submodel of id i, and none when there is no such
\* submodel, collection or property or the value is not a string; a
\* reference that does not contain exactly one '#' returns none
C26_ResolveFirstMatch ==
    Resolved =>
        /\ Len(aas_query.full_ref) # 2 => aas_result = None
        /\ Len(aas_query.full_ref) = 2 =>
              aas_result = Named(aas_query.aas, <<aas_query.full_ref[1]>>,
                                 <<aas_query.full_ref[2]>>)

\* a reference built from the id of the second submodel and the short name
\* of a nested collection resolved to the SensorID the collection holds
C26_Witness ==
    /\ Resolved
    /\ Len(aas_query.aas.submodels) = 2
    /\ aas_query.aas.submodels[1].id # aas_query.aas.submodels[2].id
    /\ aas_query.full_ref = aas_query.aas.submodels[2].id \o <<"SensorAux">>
    /\ aas_result = Some("s2")

Searched == aas_query.fn = "find_elements_in_collection"

\* the string values of the properties of short name target among the
\* elements, in their order
StringValues(elements, target) ==
    LET hits == SelectSeq(elements,
                   LAMBDA x : /\ x.element_type = "property"
                              /\ x.id_short = target
                              /\ x.value.t = "Str")
    IN [k \in DOMAIN hits |-> hits[k].value.s]

\* C27: find_elements_in_collection(submodel, collection, target) is the
\* list of the string values of the properties of short name target in the
\* first top-level collection of that short name of the first submodel of
\* that short name and in the collections nested under it, in depth-first
\* pre-order document order; values that are not strings and elements that
\* are not properties add nothing; a missing submodel or collection gives
\* the empty list
C27_FindElements ==
    Searched =>
        LET m == First(aas_query.aas.submodels,
                       LAMBDA x : x.id_short = aas_query.submodel)
            c == IF m = None THEN None
                 ELSE First(m[1].elements,
                            LAMBDA x : /\ x.element_type = "collection"
                                       /\ x.id_short = aas_query.collection)
        IN aas_result = IF c = None THEN <<>>
                        ELSE StringValues(leaves_of(c[1].elements), aas_query.target)

\* the search of a Sensors collection that holds properties before, in and
\* after a nested collection, next to a reference element of the same short
\* name and before a second Sensors collection, gave the values in document
\* order
C27_Witness ==
    /\ Searched
    /\ aas_query.collection = <<"Sensors">>
    /\ aas_query.target = <<"SensorID">>
    /\ aas_result = <<"s1", "s2", "s3">>

\* ------------------------------------------------------------------------
\* End to end
\* ------------------------------------------------------------------------

\* the messages the receiver has decoded for inbox i: those it has sent and
\* those it is about to send, in order
DecodedFor(i) ==
    LET waiting == SelectSeq(rx_pending, LAMBDA e : e.ch = i)
    IN RoutedTo(i) \o [k \in 1..Len(waiting) |-> waiting[k].msg]

\* runner i is a light bulb, registered with the receiver, subscribed to
\* sensor S, and its slot map sends S to CurrentPowerDraw
LightOn(i, S) ==
    /\ i \in DOMAIN runners
    /\ runners[i].inner_state.model = "LightBulb"
    /\ runners[i].aas.id \in DOMAIN asset_channels
    /\ asset_channels[runners[i].aas.id] = i
    /\ S \in DOMAIN subscriptions
    /\ runners[i].aas.id \in Range(subscriptions[S])
    /\ S \in DOMAIN runners[i].slot_map
    /\ runners[i].slot_map[S] = "CurrentPowerDraw"

\* the last message the receiver decoded for inbox i is the update of S to
\* 0.7
LastIsUpdate(i, S) ==
    /\ DecodedFor(i) # <<>>
    /\ DecodedFor(i)[Len(DecodedFor(i))] = InputChangeMsg(S, 7)

SwitchedOn(i) ==
    /\ i \in DOMAIN runners
    /\ state(runners[i].inner_state) = "On"

\* C30: under fair scheduling, when light bulb T is registered, subscribed
\* to S with slot map S -> CurrentPowerDraw, the receiver has decoded the
\* update {object: S, value: 0.7} for T and sends T nothing after it, T is
\* eventually in state On and stays in it: from some point on, every such T
\* whose last decoded message is that update is in state On
C30_EndToEnd ==
    <>[](\A i \in DOMAIN EndToEndDirectory : \A S \in {"s1", "s2"} :
            LightOn(i, S) /\ LastIsUpdate(i, S) => SwitchedOn(i))

\* the light took the reading 0.3 and then the reading 0.7 of its sensor,
\* nothing else is on its way, and it is on
C30_Witness ==
    \E i \in DOMAIN runners :
        /\ LightOn(i, "s1")
        /\ LastIsUpdate(i, "s1")
        /\ consumed[i] = <<InputChangeMsg("s1", 3), InputChangeMsg("s1", 7)>>
        /\ broker.remaining = 0
        /\ rx_pending = <<>>
        /\ state(runners[i].inner_state) = "On"

\* ------------------------------------------------------------------------
\* Bounded inboxes
\* ------------------------------------------------------------------------

\* every channel of the program: the manager's, the receiver's, the runners'
Channels == <<mgr_inbox, rx_inbox>> \o inboxes

\* a step of one channel: untouched, its head received, or a message sent
\* to its tail while it held fewer than InboxCapacity messages
ChannelStep(q, r) ==
    \/ r = q
    \/ q # <<>> /\ r = Tail(q)
    \/ /\ Len(q) < InboxCapacity
       /\ Len(r) = Len(q) + 1
       /\ SubSeq(r, 1, Len(q)) = q

\* the receiver's send in progress completed in this step
ReceiverSent ==
    /\ rx_pending # <<>>
    /\ rx_pending' # rx_pending

\* runner i left the await of a send of its init in this step
RunnerSent(i) ==
    /\ runners[i].pc # "run"
    /\ runners'[i].pc # runners[i].pc

\* C31: no channel ever holds more than 5 messages; a message is only added
\* at the tail of a channel that has room and only removed at its head by
\* the receiving task, so none is dropped or overwritten; and a sender
\* moves on from a send only in the step that puts its message on the
\* channel, so it waits while the channel is full
C31_BoundedInboxes ==
    /\ [](\A k \in DOMAIN Channels : Len(Channels[k]) <= 5)
    /\ [][/\ ChannelStep(mgr_inbox, mgr_inbox')
          /\ ChannelStep(rx_inbox, rx_inbox')
          /\ \A i \in DOMAIN inboxes :
                /\ i \in DOMAIN inboxes'
                /\ ChannelStep(inboxes[i], inboxes'[i])
          /\ ReceiverSent =>
                LET s == Head(rx_pending)
                IN /\ rx_pending' = Tail(rx_pending)
                   /\ inboxes'[s.ch] = Append(inboxes[s.ch], s.msg)
          /\ \A i \in DOMAIN runners :
                RunnerSent(i) =>
                   LET a == runners[i].aas.id
                   IN CASE runners[i].pc = "register_manager" ->
                             mgr_inbox' = Append(mgr_inbox, ManagerRegister(a, i))
                        [] runners[i].pc = "register_receiver" ->
                             rx_inbox' = Append(rx_inbox, NetworkRegister(a, i))
                        [] runners[i].pc = "subscribe" ->
                             rx_inbox' = Append(rx_inbox,
                                NetworkSubscribe(a, sensor_ids(runners[i].aas)))]_vars

\* the receiver waits on a send to a full inbox while the receiver's own
\* channel is full, and the inbox still holds what was sent to it
C31_Witness ==
    /\ rx_pending # <<>>
    /\ Len(inboxes[Head(rx_pending).ch]) = InboxCapacity
    /\ Len(rx_inbox) = InboxCapacity
    /\ RoutedTo(Head(rx_pending).ch) = inboxes[Head(rx_pending).ch]

\* the receiver is blocked sending to twin i's full inbox while twin i is
\* blocked in init sending to the receiver's full channel
CircularWait(i) ==
    /\ rx_pending # <<>>
    /\ Head(rx_pending).ch = i
    /\ Len(inboxes[i]) = InboxCapacity
    /\ runners[i].pc \in {"register_receiver", "subscribe"}
    /\ Len(rx_inbox) = InboxCapacity

\* C34: no reachable state is a circular wait between the receiver and a
\* twin runner
C34_NoCircularWait == \A i \in DOMAIN runners : ~CircularWait(i)

\* ------------------------------------------------------------------------
\* Slot map and subscriptions after init
\* ------------------------------------------------------------------------

\* the DataSource reference of the first top-level collection of the slot's
\* name in the first submodel of short name PowerAndElectrical
DataSourceOf(aas, slot) ==
    LET m == First(aas.submodels, LAMBDA x : x.id_short = <<"PowerAndElectrical">>)
        c == IF m = None THEN None
             ELSE First(m[1].elements,
                        LAMBDA x : /\ x.element_type = "collection"
                                   /\ x.id_short = <<slot>>)
        r == IF c = None THEN None
             ELSE First(c[1].elements,
                        LAMBDA x : /\ x.element_type = "referenceelement"
                                   /\ x.id_short = <<"DataSource">>)
    IN IF r = None THEN None ELSE Some(r[1].value.ref)

\* the SensorID a slot names: the DataSource reference of the first
\* top-level collection of the slot's name in the first submodel of short
\* name PowerAndElectrical, when it has two '#' pieces and names a SensorID
SlotSensor(aas, slot) ==
    LET r == DataSourceOf(aas, slot)
    IN IF r = None THEN None
       ELSE IF Len(r[1]) # 2 THEN None
       ELSE Named(aas, <<r[1][1]>>, <<r[1][2]>>)

\* the runner has built its slot map
SlotMapBuilt(i) == runners[i].pc \in {"subscribe", "run"}

\* the slot is the value of some binding of the map
BoundSlot(map, slot) == \E d \in DOMAIN map : map[d] = slot

\* the declared slots after position k that name the same SensorID
LaterSlots(i, k) ==
    {j \in DOMAIN runners[i].slots :
        /\ j > k
        /\ SlotSensor(runners[i].aas, runners[i].slots[j])
              = SlotSensor(runners[i].aas, runners[i].slots[k])}

\* C33 as stated: once the slot map is built, a declared slot whose
\* reference is missing or does not resolve is bound by no SensorID, and
\* every declared slot whose reference resolves is bound by its SensorID
C33_EveryResolvedSlotBound ==
    \A i \in DOMAIN runners :
        SlotMapBuilt(i) =>
            \A k \in DOMAIN runners[i].slots :
                LET slot == runners[i].slots[k]
                    d == SlotSensor(runners[i].aas, slot)
                IN IF d = None
                   THEN ~BoundSlot(runners[i].slot_map, slot)
                   ELSE /\ d[1] \in DOMAIN runners[i].slot_map
                        /\ runners[i].slot_map[d[1]] = slot

\* the slot map holds, for each SensorID that declared slots resolve to,
\* the last of those slots, and nothing else
LastResolvedSlotBound(i) ==
    /\ \A k \in DOMAIN runners[i].slots :
          LET slot == runners[i].slots[k]
              d == SlotSensor(runners[i].aas, slot)
          IN IF d = None \/ LaterSlots(i, k) # {}
             THEN ~BoundSlot(runners[i].slot_map, slot)
             ELSE /\ d[1] \in DOMAIN runners[i].slot_map
                  /\ runners[i].slot_map[d[1]] = slot
    /\ \A d \in DOMAIN runners[i].slot_map :
          \E k \in DOMAIN runners[i].slots :
             runners[i].slot_map[d] = runners[i].slots[k]

\* init got to the end: the runner reads its inbox and the receiver has
\* taken its Subscribe
InitOver(i) ==
    /\ runners[i].pc = "run"
    /\ Subscribed(runners[i].aas.id)

\* C33 (amended): once the slot map is built, a declared slot whose
\* reference is missing or does not resolve is bound by no SensorID; every
\* declared slot whose reference resolves is bound by its SensorID unless a
\* later declared slot resolves to the same SensorID, which then holds the
\* binding; and init goes on to the subscription step whatever the slots
\* resolve to
C33_LastResolvedSlotBound ==
    /\ [](\A i \in DOMAIN runners : SlotMapBuilt(i) => LastResolvedSlotBound(i))
    /\ <>[](~panicked /\ 1 \in DOMAIN runners /\ InitOver(1))

\* init is over with one slot unresolved and the other bound
C33_Witness ==
    /\ 1 \in DOMAIN runners
    /\ InitOver(1)
    /\ SlotSensor(runners[1].aas, "CurrentPowerDraw") = None
    /\ runners[1].slot_map = ("s2" :> "InputCurrent")

\* the DeviceIDs the runner has subscribed to: those of its Subscribe
\* messages in the receiver's channel, and those whose subscriber list the
\* receiver has put it on
SubscribedDevices(i) ==
    UNION {Range(rx_inbox[k].oids) : k \in InReceiverChannel(runners[i].aas.id, "Subscribe")}
       \cup {d \in DOMAIN subscriptions : runners[i].aas.id \in Range(subscriptions[d])}

\* C36 as stated: after init, each DeviceID bound in the slot map is among
\* the DeviceIDs the twin subscribes to at the receiver
C36_BoundSlotsSubscribed ==
    \A i \in DOMAIN runners :
        runners[i].pc = "run" => DOMAIN runners[i].slot_map \subseteq SubscribedDevices(i)

\* the collections under the first top-level collection Sensors of the
\* first submodel of short name IoTDataSources
ListedSensors(aas) ==
    LET m == First(aas.submodels, LAMBDA x : x.id_short = <<"IoTDataSources">>)
        c == IF m = None THEN None
             ELSE First(m[1].elements,
                        LAMBDA x : /\ x.element_type = "collection"
                                   /\ x.id_short = <<"Sensors">>)
    IN IF c = None THEN {} ELSE Range(collections_of(c[1].elements))

\* the collection a two-piece reference names: the first collection of
\* that short name, at any depth, of the first submodel of that id
NamedCollection(aas, r) ==
    LET m == First(aas.submodels, LAMBDA x : x.id = <<r[1]>>)
    IN IF m = None THEN None
       ELSE First(collections_of(m[1].elements), LAMBDA x : x.id_short = <<r[2]>>)

\* the DataSource reference of the slot that DeviceID d is bound to names a
\* collection listed under IoTDataSources/Sensors
BoundToListedSensor(i, d) ==
    LET r == DataSourceOf(runners[i].aas, runners[i].slot_map[d])
        c == IF r = None \/ Len(r[1]) # 2 THEN None
             ELSE NamedCollection(runners[i].aas, r[1])
    IN c # None /\ c[1] \in ListedSensors(runners[i].aas)

\* C36 (amended): after init, each DeviceID bound in the slot map through a
\* DataSource reference that names a sensor collection listed under
\* IoTDataSources/Sensors is among the DeviceIDs the twin subscribes to at
\* the receiver
C36_ListedSlotsSubscribed ==
    \A i \in DOMAIN runners :
        runners[i].pc = "run" =>
            \A d \in DOMAIN runners[i].slot_map :
                BoundToListedSensor(i, d)
                    => d \in SubscribedDevices(i)

\* init is over with both slots bound to listed sensors and the receiver
\* has put the twin on both subscriber lists
C36_Witness ==
    /\ 1 \in DOMAIN runners
    /\ runners[1].pc = "run"
    /\ runners[1].slot_map = ("s1" :> "CurrentPowerDraw") @@ ("s2" :> "InputCurrent")
    /\ \A d \in {"s1", "s2"} :
          /\ BoundToListedSensor(1, d)
          /\ d \in DOMAIN subscriptions
          /\ runners[1].aas.id \in Range(subscriptions[d])

\* ------------------------------------------------------------------------
\* Routing
\* ------------------------------------------------------------------------

\* the receiver has handled a Subscribe of asset a that lists device d
HandledSubscribe(handled, a, d) ==
    \E k \in DOMAIN handled :
        /\ handled[k].type = "Subscribe"
        /\ handled[k].src = a
        /\ d \in Range(handled[k].oids)

\* the assets of the messages the receiver was sent
Senders == {env_log[k].msg.src : k \in {j \in DOMAIN env_log : env_log[j].to = "receiver"}}

\* C35: a message is put on an inbox only when it is addressed to it: an
\* InputChange(d, _) when an asset registered with that inbox has sent a
\* Subscribe listing d, a Command when the frame being routed targets an
\* asset registered with that inbox
C35_OnlyAddressed ==
    [][\A i \in DOMAIN inboxes :
          Len(inboxes'[i]) > Len(inboxes[i]) =>
             LET msg == inboxes'[i][Len(inboxes'[i])]
                 handled == HandledOf(env_log, "receiver", rx_inbox)
             IN IF msg.kind = "InputChange"
                THEN \E a \in Senders :
                        /\ LastRegistered(handled, a) = Some(i)
                        /\ HandledSubscribe(handled, a, msg.name)
                ELSE /\ rx_frame.ok
                     /\ rx_frame.command # None
                     /\ LastRegistered(handled, rx_frame.command[1].target) = Some(i)]_vars

\* the light bulb's inbox got the update it subscribed to and the command
\* that targets it, while the other inbox, registered by the station that
\* subscribed to nothing, got no message
C35_Witness ==
    /\ LastRegistered(HandledOf(env_log, "receiver", rx_inbox), LightA) = Some(1)
    /\ LastRegistered(HandledOf(env_log, "receiver", rx_inbox), StationB) = Some(2)
    /\ inboxes[1] = <<InputChangeMsg("s1", 7), CommandMsg("SwitchOn", "{}")>>
    /\ inboxes[2] = <<>>

\* the entries of d's subscriber list whose asset has a registered inbox
RegisteredSubscribers(d) ==
    IF d \notin DOMAIN subscriptions THEN {}
    ELSE {k \in DOMAIN subscriptions[d] : subscriptions[d][k] \in DOMAIN asset_channels}

\* seq is the start of full
StartOf(seq, full) ==
    /\ Len(seq) <= Len(full)
    /\ \A k \in DOMAIN seq : seq[k] = full[k]

\* C37: the receiver enqueues the Command of a frame only when every
\* InputChange the frame's update calls for has been enqueued, so no
\* InputChange of a frame follows the frame's Command on any inbox; and a
\* twin takes its messages in the order they were enqueued, so a twin that
\* gets both applies the update first
C37_UpdateBeforeCommand ==
    /\ [](\A j \in DOMAIN sent : \A k \in DOMAIN sent :
             (j < k /\ sent[j].frame = sent[k].frame /\ sent[j].msg.kind = "Command")
                => sent[k].msg.kind = "Command")
    /\ [](\A i \in DOMAIN consumed : StartOf(consumed[i], RoutedTo(i)))
    /\ [][(/\ Len(sent') > Len(sent)
           /\ sent'[Len(sent')].msg.kind = "Command"
           /\ rx_frame.update # None)
             => Len(SentFor(sent, nframes, "InputChange")) =
                   Cardinality(RegisteredSubscribers(rx_frame.update[1].object))]_vars

\* the light bulb, subscriber of s1 and target of the command of the same
\* frame, has taken the InputChange and then the Command
C37_Witness ==
    /\ rx_frame.ok
    /\ rx_frame.update # None
    /\ rx_frame.command # None
    /\ rx_pending = <<>>
    /\ Len(SentFor(sent, nframes, "InputChange")) >= 1
    /\ \E i \in DOMAIN consumed :
          /\ runners[i].aas.id = LightA
          /\ Len(consumed[i]) >= 2
          /\ consumed[i][Len(consumed[i])].kind = "Command"
          /\ consumed[i][Len(consumed[i]) - 1].kind = "InputChange"
          /\ consumed[i] = RoutedTo(i)
          /\ \A k \in {Len(sent) - 1, Len(sent)} :
                sent[k].frame = nframes /\ sent[k].ch = i

\* a step of the routing of a broker frame: the poll that decodes it or
\* one of its sends
RoutingStep == nframes' # nframes \/ ReceiverSent

\* C38: the routing of a frame leaves the AssetID-to-inbox table and the
\* subscription table as they are; the first changes only when the receiver
\* takes a Register from its channel, the second only when it takes a
\* Subscribe; and no step removes an AssetID from a table or from the
\* manager's registry, a DeviceID from the subscription table, or an asset
\* from a subscriber list
C38_TablesOnlyGrow ==
    [][/\ RoutingStep =>
             /\ asset_channels' = asset_channels
             /\ subscriptions' = subscriptions
       /\ asset_channels' # asset_channels => ReceiverHandles("Register")
       /\ subscriptions' # subscriptions => ReceiverHandles("Subscribe")
       /\ DOMAIN asset_channels \subseteq DOMAIN asset_channels'
       /\ DOMAIN actors \subseteq DOMAIN actors'
       /\ DOMAIN subscriptions \subseteq DOMAIN subscriptions'
       /\ \A d \in DOMAIN subscriptions :
             StartOf(subscriptions[d], subscriptions'[d])]_vars

\* with two twins registered and subscribed, one frame was delivered and
\* then a command for an unregistered target was dropped, and the tables
\* still hold both twins
C38_Witness ==
    /\ nframes = 2
    /\ rx_pending = <<>>
    /\ Cardinality(DOMAIN asset_channels) = 2
    /\ Cardinality(DOMAIN actors) = 2
    /\ \E d \in DOMAIN subscriptions : Len(subscriptions[d]) = 2
    /\ rx_frame.ok
    /\ rx_frame.command # None
    /\ rx_frame.command[1].target \notin DOMAIN asset_channels
    /\ sent # <<>>

\* the payload is a command frame of the mqtt_sender tool
FromSenderCommand(p) ==
    \E cmd \in {"SwitchOn", "SwitchOff"} : \E target \in {LightA, UnknownZ} :
        p = SenderCommand(cmd, target)

\* C39: a command frame built by mqtt_sender whose target is registered is
\* decoded and calls for one send, of Command(cmd, _) to the target's inbox
C39_SenderCommandRouted ==
    [][(/\ nframes' # nframes
        /\ FromSenderCommand(rx_payload')
        /\ rx_payload'.command[1].target[1] \in DOMAIN asset_channels)
          => /\ rx_frame'.ok
             /\ Len(rx_pending') = 1
             /\ rx_pending'[1].ch = asset_channels[rx_payload'.command[1].target[1]]
             /\ rx_pending'[1].msg.kind = "Command"
             /\ rx_pending'[1].msg.name = rx_payload'.command[1].command[1]]_vars

====
